---------------------------- MODULE Spec2Model ----------------------------
(***************************************************************************)
(* Verification model of the snap-sync tooling of ethrex-replay:           *)
(*   - run_profile  (src/src/snapsync.rs): the repeated-run session,       *)
(*   - run_compare  (src/src/snapsync_compare.rs): the report comparator,  *)
(*   - verify       (src/src/snapsync_verify.rs): the dataset verifier,    *)
(*   - PhaseStats   (src/src/snapsync/report.rs): the statistics.          *)
(*                                                                         *)
(* Each command is a sequential program; its position is a pc variable     *)
(* and each action is one block of its code.  The three commands are       *)
(* separate processes, so each has its own specification (ProfileSpec,     *)
(* CompareSpec, VerifySpec) over the shared output variables.              *)
(*                                                                         *)
(* f64 values are modelled as exact rationals <<num, den>> (den > 0, in    *)
(* lowest terms); a Duration is a whole number of seconds.                 *)
(***************************************************************************)
EXTENDS Integers, Sequences, FiniteSets, TLC

VARIABLES
    \* ---- the process's observable output (all commands)
    stdout,        \* what println! printed: a sequence of [kind, doc]
    json_file,     \* content of the --json-out file, or None
    result,        \* "running", or the value the command returned
    \* ---- run_profile
    opts,                        \* SnapSyncProfileOptions
    expected_root,               \* manifest.post_accounts_insert_state_root
    fs,                          \* working directories: name -> the passes that wrote there
    pc,                          \* position in run_profile
    i,                           \* loop index of the pass
    db_dir,                      \* working directory of the pass in flight
    temp_dir,                    \* the TempDir guard of the pass in flight, or None
    last_state_root,
    run_entries,
    insert_accounts_durations,
    insert_storages_durations,
    total_durations,
    root_validation,             \* RootValidation once computed, or None
    executed,                    \* log of run_once calls: the roots they returned
    session,                     \* which invocation of the command this is
    \* ---- run_compare
    c_opts,                      \* CompareOptions
    c_pc,
    baseline,
    candidate,
    comparison,                  \* the ComparisonReport once built, or None
    \* ---- verify
    v_opts,                      \* VerifyDatasetOptions
    v_pc,
    dataset,                     \* the dataset directory on disk
    manifest,                    \* Option<manifest> after load_manifest
    errors,
    stats,
    acc_chunks,
    storage_chunks,
    verify_result,               \* the VerifyResult once built, or None
    \* PhaseStats::from_durations called on its own
    l_pc,
    l_durations,                 \* the durations passed to from_durations
    phase_stats,                 \* the PhaseStats returned, or None
    run_stats,                   \* what RunStats gives for the same durations, or None
    \* SnapProfileReportV1::write_to_file / load_from_file called on their own
    rt_report,                   \* the report passed to write_to_file
    rt_file,                     \* the JSON document in the file, or None
    rt_loaded                    \* the report load_from_file returned, or None

out_vars == <<stdout, json_file, result>>

profile_vars ==
    <<opts, expected_root, fs, pc, i, db_dir, temp_dir, last_state_root,
      run_entries, insert_accounts_durations, insert_storages_durations,
      total_durations, root_validation, executed, session>>

compare_vars == <<c_opts, c_pc, baseline, candidate, comparison>>

verify_vars ==
    <<v_opts, v_pc, dataset, manifest, errors, stats, acc_chunks, storage_chunks,
      verify_result>>

lib_vars == <<l_pc, l_durations, phase_stats, run_stats, rt_report, rt_file, rt_loaded>>

vars == <<out_vars, profile_vars, compare_vars, verify_vars, lib_vars>>

\* Option<T>: None, or Some(x) holding x
None == <<>>
Some(x) == <<x>>
Unwrap(o) == o[1]

----------------------------------------------------------------------------
(* Bounds of the model.                                                    *)

\* passes of one session: warmup + repeat <= MaxPasses
MaxPasses == 2
\* invocations of the profile command in a row, on the same file system
MaxSessions == 2
\* durations passed to one call of from_durations
MaxSamples == 3
\* samples in the longer runs given to from_durations on its own
MaxLongSamples == 52
\* entries of the account snapshot directory of a dataset
MaxChunks == 2

----------------------------------------------------------------------------
(* f64 arithmetic, as exact rationals.                                     *)

Abs(x) == IF x < 0 THEN -x ELSE x

RECURSIVE GCD(_, _)
GCD(a, b) == IF b = 0 THEN a ELSE GCD(b, a % b)

\* the rational n/d, d # 0, in lowest terms with a positive denominator
Rat(n, d) ==
    LET g == GCD(Abs(n), Abs(d))
        s == IF d < 0 THEN -1 ELSE 1
    IN  <<(s * n) \div g, (s * d) \div g>>

RatZero == <<0, 1>>
RatOfInt(n) == <<n, 1>>
RatAdd(x, y) == Rat(x[1] * y[2] + y[1] * x[2], x[2] * y[2])
RatSub(x, y) == Rat(x[1] * y[2] - y[1] * x[2], x[2] * y[2])
RatMul(x, y) == Rat(x[1] * y[1], x[2] * y[2])
\* x / y, y # 0
RatDiv(x, y) == Rat(x[1] * y[2], x[2] * y[1])
RatLess(x, y) == x[1] * y[2] < y[1] * x[2]
RatLeq(x, y) == x[1] * y[2] <= y[1] * x[2]

\* f64::sqrt of a non-negative value, kept symbolic: the value whose square is
\* v (so Sqrt(RatZero) is 0.0).  stddev_secs is the only field of this kind.
Sqrt(v) == [sqrt_of |-> v]

\* Duration::as_secs_f64
AsSecsF64(d) == RatOfInt(d)

----------------------------------------------------------------------------
(* PhaseStats::from_durations (src/src/snapsync/report.rs).                *)

RECURSIVE InsertSorted(_, _)
InsertSorted(s, x) ==
    IF s = <<>> THEN <<x>>
    ELSE IF RatLeq(x, Head(s)) THEN <<x>> \o s
    ELSE <<Head(s)>> \o InsertSorted(Tail(s), x)

\* sorted.sort_by(partial_cmp)
RECURSIVE SortAsc(_)
SortAsc(s) ==
    IF s = <<>> THEN <<>> ELSE InsertSorted(SortAsc(Tail(s)), Head(s))

RECURSIVE RatSum(_)
RatSum(s) == IF s = <<>> THEN RatZero ELSE RatAdd(Head(s), RatSum(Tail(s)))

Min2(a, b) == IF a < b THEN a ELSE b

\* ((p / 100.0) * (n - 1) as f64).round() as usize; round() rounds half away
\* from zero, and the argument is never negative
PercentileIdx(p, n) == (2 * p * (n - 1) + 100) \div 200

\* the closure `percentile` over the sorted samples (0-based idx)
Percentile(sorted, p) ==
    LET n == Len(sorted)
    IN  sorted[Min2(PercentileIdx(p, n), n - 1) + 1]

ZeroStats ==
    [median_secs |-> RatZero, mean_secs |-> RatZero, stddev_secs |-> Sqrt(RatZero),
     p95_secs |-> RatZero, p99_secs |-> RatZero,
     min_secs |-> RatZero, max_secs |-> RatZero]

SqDiff(v, mean) == RatMul(RatSub(v, mean), RatSub(v, mean))

\* variant that computes the sample variance for a single sample too: 0 / 0
from_durations_VarianceOfOne(durations) ==
    LET sorted == SortAsc([k \in 1..Len(durations) |-> AsSecsF64(durations[k])])
        n == Len(sorted)
        median ==
            IF n % 2 = 1 THEN sorted[n \div 2 + 1]
            ELSE RatDiv(RatAdd(sorted[n \div 2], sorted[n \div 2 + 1]), RatOfInt(2))
        mean == RatDiv(RatSum(sorted), RatOfInt(n))
        variance ==
            IF n = 1 THEN <<0, 0>>
            ELSE RatDiv(RatSum([k \in 1..n |-> SqDiff(sorted[k], mean)]), RatOfInt(n - 1))
        stddev == Sqrt(variance)
    IN  IF n = 0 THEN ZeroStats
        ELSE [median_secs |-> median, mean_secs |-> mean, stddev_secs |-> stddev,
              p95_secs |-> Percentile(sorted, 95), p99_secs |-> Percentile(sorted, 99),
              min_secs |-> sorted[1], max_secs |-> sorted[n]]

from_durations(durations) ==
    LET sorted == SortAsc([k \in 1..Len(durations) |-> AsSecsF64(durations[k])])
        n == Len(sorted)
        median ==
            IF n % 2 = 1 THEN sorted[n \div 2 + 1]
            ELSE RatDiv(RatAdd(sorted[n \div 2], sorted[n \div 2 + 1]), RatOfInt(2))
        mean == RatDiv(RatSum(sorted), RatOfInt(n))
        variance ==
            RatDiv(RatSum([k \in 1..n |-> SqDiff(sorted[k], mean)]), RatOfInt(n - 1))
        stddev == IF n < 2 THEN Sqrt(RatZero) ELSE Sqrt(variance)
    IN  IF n = 0 THEN ZeroStats
        ELSE [median_secs |-> median, mean_secs |-> mean, stddev_secs |-> stddev,
              p95_secs |-> Percentile(sorted, 95), p99_secs |-> Percentile(sorted, 99),
              min_secs |-> sorted[1], max_secs |-> sorted[n]]

----------------------------------------------------------------------------
(* run_profile (src/src/snapsync.rs).                                      *)

\* state roots (H256) the engine can return; the manifest expects one of them
Roots == {1, 2}

\* format!("{:?}", root) of an H256
RootStr(h) == IF h = 1 THEN "0x0000000000000001" ELSE "0x0000000000000002"

\* --backend values; parse_backend accepts the first two
Backends == {"inmemory", "rocksdb", "bogus"}

\* sample durations of one insert phase, in seconds
Durations == {1, 2}

\* what run_once_with_opts can return for one pass: three phase durations
\* (the total spans both insert phases) and the computed state root
RunResults ==
    {[insert_accounts_duration |-> a, insert_storages_duration |-> s,
      total_duration |-> a + s, computed_state_root |-> h] :
        a \in Durations, s \in Durations, h \in Roots}

ProfileOptions ==
    {o \in [warmup : 0..MaxPasses, repeat : 0..MaxPasses, backend : Backends,
            db_dir : {None, Some("db")}, keep_db : BOOLEAN,
            json_out : BOOLEAN, json_stdout : BOOLEAN] :
        o.warmup + o.repeat <= MaxPasses}

\* one println! of a document
Printed(kind, doc) == [kind |-> kind, doc |-> doc]

\* the three commands idle: the part of the state a command does not own
OutInit == stdout = <<>> /\ json_file = None /\ result = "running"

ProfileIdle ==
    /\ opts = None /\ expected_root = None /\ fs = <<>> /\ pc = "idle" /\ i = 0
    /\ db_dir = None /\ temp_dir = None /\ last_state_root = None
    /\ run_entries = <<>> /\ insert_accounts_durations = <<>>
    /\ insert_storages_durations = <<>> /\ total_durations = <<>>
    /\ root_validation = None /\ executed = <<>> /\ session = 0

CompareIdle ==
    /\ c_opts = None /\ c_pc = "idle" /\ baseline = None /\ candidate = None
    /\ comparison = None

VerifyIdle ==
    /\ v_opts = None /\ v_pc = "idle" /\ dataset = None /\ manifest = None
    /\ errors = <<>> /\ stats = None /\ acc_chunks = <<>> /\ storage_chunks = <<>>
    /\ verify_result = None

LibIdle ==
    /\ l_pc = "idle" /\ l_durations = <<>> /\ phase_stats = None /\ run_stats = None
    /\ rt_report = None /\ rt_file = None /\ rt_loaded = None

ProfileInit ==
    /\ OutInit /\ CompareIdle /\ VerifyIdle /\ LibIdle
    /\ opts \in ProfileOptions
    /\ expected_root = None
    /\ fs = <<>>
    /\ pc = "start"
    /\ i = 0
    /\ db_dir = None
    /\ temp_dir = None
    /\ last_state_root = None
    /\ run_entries = <<>>
    /\ insert_accounts_durations = <<>>
    /\ insert_storages_durations = <<>>
    /\ total_durations = <<>>
    /\ root_validation = None
    /\ executed = <<>>
    /\ session = 1

\* return Err(..) / Ok(()): locals are dropped, a live TempDir guard removes
\* its directory
DropTempDir(files, guard) ==
    IF guard = None THEN files
    ELSE [d \in (DOMAIN files) \ {Unwrap(guard)} |-> files[d]]

\* std::fs::create_dir_all: an existing directory is left as it is
CreateDirAll(files, d) ==
    [x \in (DOMAIN files) \cup {d} |-> IF x \in DOMAIN files THEN files[x] ELSE {}]

\* std::fs::remove_dir_all
RemoveDirAll(files, d) == [x \in (DOMAIN files) \ {d} |-> files[x]]

\* the engine writes its database under the pass's directory
WriteDb(files, d, pass) ==
    IF d \in DOMAIN files THEN [files EXCEPT ![d] = @ \cup {pass}] ELSE files

total_runs == opts.warmup + opts.repeat

\* variant of is_warmup with an off-by-one bound
is_warmup_OffByOne(k) == k <= opts.warmup

is_warmup(k) == k < opts.warmup

run_num(k) == IF is_warmup(k) THEN k + 1 ELSE k - opts.warmup + 1

is_last_measured(k) == ~is_warmup(k) /\ run_num(k) = opts.repeat

Return(r) ==
    /\ result' = r
    /\ pc' = "done"
    /\ fs' = DropTempDir(fs, temp_dir)
    /\ temp_dir' = None

\* lines 37-42: parse_backend and load_manifest, each may fail
Start ==
    /\ pc = "start"
    /\ IF opts.backend \notin {"inmemory", "rocksdb"}
       THEN Return("Err:UnknownBackend") /\ UNCHANGED expected_root
       ELSE \/ Return("Err:LoadDataset") /\ UNCHANGED expected_root
            \/ /\ expected_root' \in {Some(h) : h \in Roots}
               /\ pc' = "loop"
               /\ UNCHANGED <<result, fs, temp_dir>>
    /\ UNCHANGED <<stdout, json_file, opts, i, db_dir, last_state_root, run_entries,
                   insert_accounts_durations, insert_storages_durations,
                   total_durations, root_validation, executed>>
    /\ UNCHANGED <<session, compare_vars, verify_vars, lib_vars>>

\* lines 62-81: the head of one loop iteration provisions the working area
\* (create_run_db_dir for RocksDb, "." for InMemory)
StartPass ==
    /\ pc = "loop"
    /\ i < total_runs
    /\ IF opts.backend = "inmemory"
       THEN /\ db_dir' = Some(<<".", 0, 0>>)
            /\ temp_dir' = None
            /\ fs' = fs
       ELSE IF opts.db_dir # None
       THEN /\ db_dir' = Some(<<"run", 0, i>>)
            /\ temp_dir' = None
            /\ fs' = CreateDirAll(fs, <<"run", 0, i>>)
       ELSE /\ db_dir' = Some(<<"tmp", session, i>>)
            /\ temp_dir' = Some(<<"tmp", session, i>>)
            /\ fs' = CreateDirAll(fs, <<"tmp", session, i>>)
    /\ pc' = "run"
    /\ UNCHANGED <<stdout, json_file, result, opts, expected_root, i, last_state_root,
                   run_entries, insert_accounts_durations, insert_storages_durations,
                   total_durations, root_validation, executed>>
    /\ UNCHANGED <<session, compare_vars, verify_vars, lib_vars>>

\* create_run_db_dir(..)? fails: create_dir_all or TempDir::new returned Err
StartPassFails ==
    /\ pc = "loop"
    /\ i < total_runs
    /\ opts.backend = "rocksdb"
    /\ Return("Err:Io")
    /\ UNCHANGED <<stdout, json_file, opts, expected_root, i, db_dir, last_state_root,
                   run_entries, insert_accounts_durations, insert_storages_durations,
                   total_durations, root_validation, executed>>
    /\ UNCHANGED <<session, compare_vars, verify_vars, lib_vars>>

\* line 83-85: run_once_with_opts(..) returned Err
RunFails ==
    /\ pc = "run"
    /\ result' = "Err:RunFailed"
    /\ pc' = "done"
    /\ fs' = DropTempDir(WriteDb(fs, Unwrap(db_dir), <<session, i>>), temp_dir)
    /\ temp_dir' = None
    /\ UNCHANGED <<stdout, json_file, opts, expected_root, i, db_dir, last_state_root,
                   run_entries, insert_accounts_durations, insert_storages_durations,
                   total_durations, root_validation, executed>>
    /\ UNCHANGED <<session, compare_vars, verify_vars, lib_vars>>

RunEntry(k, r) ==
    [index |-> k,
     is_warmup |-> is_warmup(k),
     insert_accounts_secs |-> AsSecsF64(r.insert_accounts_duration),
     insert_storages_secs |-> AsSecsF64(r.insert_storages_duration),
     total_secs |-> AsSecsF64(r.total_duration),
     state_root |-> RootStr(r.computed_state_root)]

\* variant of RootDiffers that lets warmup passes through unchecked
RootDiffers_MeasuredOnly(r) ==
    /\ ~is_warmup(i)
    /\ last_state_root # None /\ Unwrap(last_state_root) # r.computed_state_root

\* lines 88-97: the root consistency check fails
RootDiffers(r) ==
    last_state_root # None /\ Unwrap(last_state_root) # r.computed_state_root

\* variant of Cleanup that keeps the area of every measured pass under
\* --keep-db
Cleanup_KeepEveryMeasured(files, k) ==
    IF opts.backend # "rocksdb" THEN files
    ELSE IF ~is_warmup(k) /\ opts.keep_db THEN files
    ELSE IF temp_dir = None /\ opts.db_dir # None THEN RemoveDirAll(files, Unwrap(db_dir))
    ELSE DropTempDir(files, temp_dir)

\* lines 120-136: dispose of the pass's working area
Cleanup(files, k) ==
    IF opts.backend # "rocksdb" THEN files
    ELSE IF is_last_measured(k) /\ opts.keep_db THEN files
    ELSE IF temp_dir = None /\ opts.db_dir # None THEN RemoveDirAll(files, Unwrap(db_dir))
    ELSE DropTempDir(files, temp_dir)

\* variant of PushMeasured that also records the warmup passes
PushMeasured_AllPasses(durations, k, d) == Append(durations, d)

\* the durations vectors grow by the measured passes only (lines 114-118)
PushMeasured(durations, k, d) ==
    IF ~is_warmup(k) THEN Append(durations, d) ELSE durations

\* lines 83-139: run_once_with_opts returned Ok(r); the rest of the iteration
FinishPass ==
    /\ pc = "run"
    /\ \E r \in RunResults :
        /\ executed' = Append(executed, r.computed_state_root)
        /\ IF RootDiffers(r)
           THEN /\ result' = "Err:NonDeterministic"
                /\ pc' = "done"
                /\ fs' = DropTempDir(WriteDb(fs, Unwrap(db_dir), <<session, i>>), temp_dir)
                /\ UNCHANGED <<i, last_state_root, run_entries,
                               insert_accounts_durations,
                               insert_storages_durations, total_durations>>
           ELSE /\ last_state_root' = Some(r.computed_state_root)
                /\ run_entries' = Append(run_entries, RunEntry(i, r))
                /\ insert_accounts_durations' =
                       PushMeasured(insert_accounts_durations, i,
                                    r.insert_accounts_duration)
                /\ insert_storages_durations' =
                       PushMeasured(insert_storages_durations, i,
                                    r.insert_storages_duration)
                /\ total_durations' =
                       PushMeasured(total_durations, i, r.total_duration)
                /\ fs' = Cleanup(WriteDb(fs, Unwrap(db_dir), <<session, i>>), i)
                /\ i' = i + 1
                /\ pc' = "loop"
                /\ UNCHANGED result
    /\ temp_dir' = None
    /\ UNCHANGED <<stdout, json_file, opts, expected_root, db_dir, root_validation>>
    /\ UNCHANGED <<session, compare_vars, verify_vars, lib_vars>>

\* lines 150-166
\* variant of RootValidation that reports the manifest's root as the computed
\* one
RootValidation_ComputedFromManifest ==
    IF last_state_root # None
    THEN [computed |-> RootStr(Unwrap(expected_root)),
          expected |-> RootStr(Unwrap(expected_root)),
          matches |-> (Unwrap(last_state_root) = Unwrap(expected_root))]
    ELSE [computed |-> "none",
          expected |-> RootStr(Unwrap(expected_root)),
          matches |-> FALSE]

RootValidation ==
    IF last_state_root # None
    THEN [computed |-> RootStr(Unwrap(last_state_root)),
          expected |-> RootStr(Unwrap(expected_root)),
          matches |-> (Unwrap(last_state_root) = Unwrap(expected_root))]
    ELSE [computed |-> "none",
          expected |-> RootStr(Unwrap(expected_root)),
          matches |-> FALSE]

\* variant of Validate that surfaces a root mismatch at once (fail-fast)
Validate_FailFast ==
    /\ pc = "loop"
    /\ i = total_runs
    /\ root_validation' = Some(RootValidation)
    /\ IF last_state_root # None /\ ~RootValidation.matches
       THEN Return("Err:RootMismatch")
       ELSE pc' = "emit" /\ UNCHANGED <<result, fs, temp_dir>>
    /\ UNCHANGED <<stdout, json_file, opts, expected_root, i, db_dir,
                   last_state_root, run_entries, insert_accounts_durations,
                   insert_storages_durations, total_durations, executed>>
    /\ UNCHANGED <<session, compare_vars, verify_vars, lib_vars>>

\* lines 141-166: after the loop, validate the last root against the manifest
Validate ==
    /\ pc = "loop"
    /\ i = total_runs
    /\ root_validation' = Some(RootValidation)
    /\ pc' = "emit"
    /\ UNCHANGED <<stdout, json_file, result, opts, expected_root, fs, i, db_dir,
                   temp_dir, last_state_root, run_entries, insert_accounts_durations,
                   insert_storages_durations, total_durations, executed>>
    /\ UNCHANGED <<session, compare_vars, verify_vars, lib_vars>>

\* lines 206-210
Summary ==
    [insert_accounts |-> from_durations(insert_accounts_durations),
     insert_storages |-> from_durations(insert_storages_durations),
     total |-> from_durations(total_durations)]

\* lines 187-216: the SnapProfileReportV1 of the session
Report ==
    [schema_version |-> 1,
     config |-> [backend |-> opts.backend, repeat |-> opts.repeat,
                 warmup |-> opts.warmup],
     runs |-> run_entries,
     summary |-> Summary,
     root_validation |-> Unwrap(root_validation)]

\* lines 183-227: build the report if requested, write it, print it
EmitReport ==
    /\ pc = "emit"
    /\ json_file' = IF opts.json_out THEN Some(Report) ELSE json_file
    /\ stdout' = IF opts.json_stdout THEN Append(stdout, Printed("json", Report))
                  ELSE stdout
    /\ pc' = "ret"
    /\ UNCHANGED <<result, opts, expected_root, fs, i, db_dir, temp_dir,
                   last_state_root, run_entries, insert_accounts_durations,
                   insert_storages_durations, total_durations, root_validation,
                   executed>>
    /\ UNCHANGED <<session, compare_vars, verify_vars, lib_vars>>

\* line 219: report.write_to_file(json_path)? fails
EmitReportFails ==
    /\ pc = "emit"
    /\ opts.json_out
    /\ Return("Err:Io")
    /\ UNCHANGED <<stdout, json_file, opts, expected_root, i, db_dir, last_state_root,
                   run_entries, insert_accounts_durations, insert_storages_durations,
                   total_durations, root_validation, executed>>
    /\ UNCHANGED <<session, compare_vars, verify_vars, lib_vars>>

\* lines 229-237: the session's result
ProfileResult ==
    IF ~Unwrap(root_validation).matches /\ last_state_root # None
    THEN "Err:RootMismatch" ELSE "Ok"

ReturnProfile ==
    /\ pc = "ret"
    /\ Return(ProfileResult)
    /\ UNCHANGED <<stdout, json_file, opts, expected_root, i, db_dir, last_state_root,
                   run_entries, insert_accounts_durations, insert_storages_durations,
                   total_durations, root_validation, executed>>
    /\ UNCHANGED <<session, compare_vars, verify_vars, lib_vars>>

\* the command is invoked again with the same --db-dir: a new process, the
\* file system as the last one left it
NextSession ==
    /\ pc = "done"
    /\ session < MaxSessions
    /\ session' = session + 1
    /\ opts' \in {o \in ProfileOptions : o.db_dir = opts.db_dir}
    /\ stdout' = <<>> /\ json_file' = None /\ result' = "running"
    /\ expected_root' = None
    /\ pc' = "start"
    /\ i' = 0
    /\ db_dir' = None
    /\ last_state_root' = None
    /\ run_entries' = <<>>
    /\ insert_accounts_durations' = <<>>
    /\ insert_storages_durations' = <<>>
    /\ total_durations' = <<>>
    /\ root_validation' = None
    /\ executed' = <<>>
    /\ UNCHANGED <<fs, temp_dir>>
    /\ UNCHANGED <<compare_vars, verify_vars, lib_vars>>

ProfileNext ==
    \/ Start
    \/ StartPass
    \/ StartPassFails
    \/ RunFails
    \/ FinishPass
    \/ Validate
    \/ EmitReport
    \/ EmitReportFails
    \/ ReturnProfile

ProfileSpec == ProfileInit /\ [][ProfileNext]_vars

\* the command invoked up to MaxSessions times in a row
SessionsNext ==
    \/ ProfileNext
    \/ NextSession

SessionsSpec == ProfileInit /\ [][SessionsNext]_vars

----------------------------------------------------------------------------
(* run_compare (src/src/snapsync_compare.rs).                              *)

\* tests::make_report's closure `phase`: a PhaseStats with the given median
\* and p95
MakePhase(median, p95) ==
    [median_secs |-> RatOfInt(median), mean_secs |-> RatOfInt(median),
     stddev_secs |-> Sqrt(RatZero),
     p95_secs |-> RatOfInt(p95), p99_secs |-> RatOfInt(p95),
     min_secs |-> RatMul(RatOfInt(median), Rat(9, 10)),
     max_secs |-> RatMul(RatOfInt(p95), Rat(11, 10))]

\* sample (median, p95) pairs of the stored phase summaries
BaselineTotals == {<<0, 0>>, <<0, 110>>, <<100, 110>>}
CandidateTotals == {<<0, 0>>, <<100, 110>>, <<105, 115>>, <<120, 132>>}
BaselinePhases == {<<0, 0>>, <<10, 11>>}
CandidatePhases == {<<10, 11>>, <<30, 12>>}

SchemaVersions == {1, 2}
ManifestShas == {"sha_aaa", "sha_bbb"}
ReportBackends == {"rocksdb", "inmemory"}

\* the SnapProfileReportV1 documents a report file can hold (the fields
\* run_compare reads)
StoredReport(version, sha, backend, total, accounts, storages) ==
    [schema_version |-> version,
     dataset |-> [manifest_sha256 |-> sha],
     config |-> [backend |-> backend],
     summary |-> [insert_accounts |-> MakePhase(accounts[1], accounts[2]),
                  insert_storages |-> MakePhase(storages[1], storages[2]),
                  total |-> MakePhase(total[1], total[2])]]

\* the baseline file: by symmetry its dataset and backend are fixed
BaselineFiles ==
    {StoredReport(v, "sha_aaa", "rocksdb", t, a, st) :
        v \in SchemaVersions, t \in BaselineTotals,
        a \in BaselinePhases, st \in BaselinePhases}

CandidateFiles ==
    {StoredReport(v, sha, b, t, a, st) :
        v \in SchemaVersions, sha \in ManifestShas, b \in ReportBackends,
        t \in CandidateTotals, a \in CandidatePhases, st \in CandidatePhases}

\* --regression-threshold-pct values
Thresholds == {None, Some(RatOfInt(5)), Some(RatOfInt(20))}

CompareOptionsSet ==
    [regression_threshold_pct : Thresholds, fail_on_regression : BOOLEAN,
     json_out : BOOLEAN, json_stdout : BOOLEAN]

CompareInit ==
    /\ OutInit /\ ProfileIdle /\ VerifyIdle /\ LibIdle
    /\ c_opts \in CompareOptionsSet
    /\ c_pc = "load_baseline"
    /\ baseline = None
    /\ candidate = None
    /\ comparison = None

CompareReturn(r) ==
    /\ result' = r
    /\ c_pc' = "done"

\* line 60: SnapProfileReportV1::load_from_file(&opts.baseline)?
LoadBaseline ==
    /\ c_pc = "load_baseline"
    /\ baseline' \in {Some(f) : f \in BaselineFiles}
    /\ c_pc' = "load_candidate"
    /\ UNCHANGED <<out_vars, c_opts, candidate, comparison>>
    /\ UNCHANGED <<profile_vars, verify_vars, lib_vars>>

\* line 61: SnapProfileReportV1::load_from_file(&opts.candidate)?
LoadCandidate ==
    /\ c_pc = "load_candidate"
    /\ candidate' \in {Some(f) : f \in CandidateFiles}
    /\ c_pc' = "check"
    /\ UNCHANGED <<out_vars, c_opts, baseline, comparison>>
    /\ UNCHANGED <<profile_vars, verify_vars, lib_vars>>

\* lines 60-61: a report file cannot be read or parsed
LoadFails ==
    /\ c_pc \in {"load_baseline", "load_candidate"}
    /\ CompareReturn("Err:Load")
    /\ UNCHANGED <<stdout, json_file, c_opts, baseline, candidate, comparison>>
    /\ UNCHANGED <<profile_vars, verify_vars, lib_vars>>

\* variant of CompatibilityError that forgets the backend check
CompatibilityError_NoBackend(b, c) ==
    IF b.schema_version # c.schema_version THEN "Err:SchemaMismatch"
    ELSE IF b.dataset.manifest_sha256 # c.dataset.manifest_sha256
    THEN "Err:DatasetMismatch"
    ELSE "Ok"

\* lines 63-84: the compatibility checks, in order
CompatibilityError(b, c) ==
    IF b.schema_version # c.schema_version THEN "Err:SchemaMismatch"
    ELSE IF b.dataset.manifest_sha256 # c.dataset.manifest_sha256
    THEN "Err:DatasetMismatch"
    ELSE IF b.config.backend # c.config.backend THEN "Err:BackendMismatch"
    ELSE "Ok"

\* lines 63-84: an incompatibility is returned
Incompatible ==
    /\ c_pc = "check"
    /\ CompatibilityError(Unwrap(baseline), Unwrap(candidate)) # "Ok"
    /\ CompareReturn(CompatibilityError(Unwrap(baseline), Unwrap(candidate)))
    /\ UNCHANGED <<stdout, json_file, c_opts, baseline, candidate, comparison>>
    /\ UNCHANGED <<profile_vars, verify_vars, lib_vars>>

\* ((candidate - baseline) / baseline) * 100.0
PctDelta(b, c) ==
    IF b = RatZero THEN RatZero
    ELSE RatMul(RatDiv(RatSub(c, b), b), RatOfInt(100))

\* variant of PhaseDelta_compute that takes the p95 delta from the medians
PhaseDelta_compute_Medians(baseline_median, baseline_p95, candidate_median, candidate_p95) ==
    [median_delta_pct |-> PctDelta(baseline_median, candidate_median),
     p95_delta_pct |-> PctDelta(baseline_median, candidate_median)]

\* PhaseDelta::compute
PhaseDelta_compute(baseline_median, baseline_p95, candidate_median, candidate_p95) ==
    [median_delta_pct |-> PctDelta(baseline_median, candidate_median),
     p95_delta_pct |-> PctDelta(baseline_p95, candidate_p95)]

\* one PhaseDelta::compute call of lines 86-105
PhaseDeltaOf(b, c) ==
    PhaseDelta_compute(b.median_secs, b.p95_secs, c.median_secs, c.p95_secs)

\* lines 86-105
PhaseDeltaSummary(b, c) ==
    [total |-> PhaseDeltaOf(b.summary.total, c.summary.total),
     insert_accounts |->
         PhaseDeltaOf(b.summary.insert_accounts, c.summary.insert_accounts),
     insert_storages |->
         PhaseDeltaOf(b.summary.insert_storages, c.summary.insert_storages)]

\* variant of RegressionDetected that also flags a delta equal to the threshold
RegressionDetected_OrEqual(d, threshold) ==
    threshold # None /\ RatLeq(Unwrap(threshold), d.total.median_delta_pct)

\* lines 107-109: is_some_and(|threshold| deltas.total.median_delta_pct > threshold)
RegressionDetected(d, threshold) ==
    threshold # None /\ RatLess(Unwrap(threshold), d.total.median_delta_pct)

\* lines 111-119
ComparisonReport(b, c) ==
    LET d == PhaseDeltaSummary(b, c)
    IN  [schema_version |-> 1,
         compatible |-> TRUE,
         deltas |-> d,
         regression_detected |->
             RegressionDetected(d, c_opts.regression_threshold_pct),
         threshold_pct |-> c_opts.regression_threshold_pct]

\* lines 121-144: the table printed to the terminal
Table(rep) ==
    [rows |-> <<<<"Total", rep.deltas.total>>,
                <<"InsertAccounts", rep.deltas.insert_accounts>>,
                <<"InsertStorages", rep.deltas.insert_storages>>>>,
     threshold |-> rep.threshold_pct,
     verdict |-> IF rep.regression_detected THEN "REGRESSION DETECTED"
                 ELSE IF rep.threshold_pct # None THEN "No regression detected."
                 ELSE ""]

\* lines 86-144: compute the deltas, build the report, print the table
CompareAndPrint ==
    /\ c_pc = "check"
    /\ CompatibilityError(Unwrap(baseline), Unwrap(candidate)) = "Ok"
    /\ LET rep == ComparisonReport(Unwrap(baseline), Unwrap(candidate))
       IN  /\ comparison' = Some(rep)
           /\ stdout' = Append(stdout, Printed("table", Table(rep)))
    /\ c_pc' = "json"
    /\ UNCHANGED <<json_file, result, c_opts, baseline, candidate>>
    /\ UNCHANGED <<profile_vars, verify_vars, lib_vars>>

\* lines 146-158: the JSON comparison report, to the file and to stdout
WriteComparison ==
    /\ c_pc = "json"
    /\ json_file' = IF c_opts.json_out THEN comparison ELSE json_file
    /\ stdout' = IF c_opts.json_stdout
                 THEN Append(stdout, Printed("json", Unwrap(comparison)))
                 ELSE stdout
    /\ c_pc' = "ret"
    /\ UNCHANGED <<result, c_opts, baseline, candidate, comparison>>
    /\ UNCHANGED <<profile_vars, verify_vars, lib_vars>>

\* line 149: std::fs::write(json_path, json)? fails
WriteComparisonFails ==
    /\ c_pc = "json"
    /\ c_opts.json_out
    /\ CompareReturn("Err:Io")
    /\ UNCHANGED <<stdout, json_file, c_opts, baseline, candidate, comparison>>
    /\ UNCHANGED <<profile_vars, verify_vars, lib_vars>>

\* variant of CompareResult that fails on every detected regression
CompareResult_AlwaysFail ==
    IF Unwrap(comparison).regression_detected THEN "Err:Regression" ELSE "Ok"

\* lines 160-164
CompareResult ==
    IF c_opts.fail_on_regression /\ Unwrap(comparison).regression_detected
    THEN "Err:Regression" ELSE "Ok"

ReturnCompare ==
    /\ c_pc = "ret"
    /\ CompareReturn(CompareResult)
    /\ UNCHANGED <<stdout, json_file, c_opts, baseline, candidate, comparison>>
    /\ UNCHANGED <<profile_vars, verify_vars, lib_vars>>

CompareNext ==
    \/ LoadBaseline
    \/ LoadCandidate
    \/ LoadFails
    \/ Incompatible
    \/ CompareAndPrint
    \/ WriteComparison
    \/ WriteComparisonFails
    \/ ReturnCompare

CompareSpec == CompareInit /\ [][CompareNext]_vars

----------------------------------------------------------------------------
(* run_verify / verify_dataset (src/src/snapsync_verify.rs).               *)
(* A file name is a sequence of tokens: "." and pieces without a dot.      *)

AccPrefix == <<"account_state_chunk", ".", "rlp">>
StoragePrefix == <<"account_storages_chunk", ".", "rlp">>

DefaultAccDir == "account_state_snapshots"
DefaultStorageDir == "account_storages_snapshots"

\* directory names a manifest can carry instead of the default ones
AltAccDir == "accounts_alt"
AltStorageDir == "storages_alt"

Digits == <<"0", "1", "2", "3", "4", "5", "6", "7", "8", "9">>

\* the value of a digit token, or -1
DigitValue(t) ==
    IF \E k \in 1..10 : Digits[k] = t
    THEN (CHOOSE k \in 1..10 : Digits[k] = t) - 1
    ELSE -1

\* str::starts_with
StartsWith(name, prefix) ==
    /\ Len(name) >= Len(prefix)
    /\ SubSeq(name, 1, Len(prefix)) = prefix

\* name.rsplit('.').next(): the piece after the last ".", the whole name when
\* it has none
RECURSIVE LastSegment(_)
LastSegment(name) ==
    IF name = <<>> THEN <<>>
    ELSE IF name[Len(name)] = "." THEN <<>>
    ELSE LastSegment(SubSeq(name, 1, Len(name) - 1)) \o <<name[Len(name)]>>

RECURSIVE DigitsValue(_, _)
DigitsValue(seg, acc) ==
    IF seg = <<>> THEN acc
    ELSE IF DigitValue(Head(seg)) < 0 THEN -1
    ELSE DigitsValue(Tail(seg), 10 * acc + DigitValue(Head(seg)))

\* idx_str.parse::<usize>(): the index, or -1 for Err; a leading "+" is
\* accepted, an empty digit string is not
ParseUsize(seg) ==
    LET digits == IF seg # <<>> /\ Head(seg) = "+" THEN Tail(seg) ELSE seg
    IN  IF digits = <<>> THEN -1 ELSE DigitsValue(digits, 0)

\* a VerifyError; `file` is [kind, dir, name], `message` is [text, arg]
VerifyError(kind, dir, name, text, arg) ==
    [file |-> [kind |-> kind, dir |-> dir, name |-> name],
     message |-> [text |-> text, arg |-> arg]]

RECURSIVE InsertInt(_, _)
InsertInt(s, x) ==
    IF s = <<>> THEN <<x>>
    ELSE IF x <= Head(s) THEN <<x>> \o s
    ELSE <<Head(s)>> \o InsertInt(Tail(s), x)

\* indices.sort()
RECURSIVE SortInts(_)
SortInts(s) == IF s = <<>> THEN <<>> ELSE InsertInt(SortInts(Tail(s)), Head(s))

\* indices.dedup(): consecutive repeats removed
RECURSIVE Dedup(_)
Dedup(s) ==
    IF Len(s) < 2 THEN s
    ELSE IF s[1] = s[2] THEN Dedup(Tail(s))
    ELSE <<s[1]>> \o Dedup(Tail(s))

\* lines 328-343: the parsed indices of the chunks, in order
RECURSIVE ParsedIndices(_)
ParsedIndices(chunks) ==
    IF chunks = <<>> THEN <<>>
    ELSE LET idx == ParseUsize(LastSegment(Head(chunks).name))
         IN  (IF idx >= 0 THEN <<idx>> ELSE <<>>) \o ParsedIndices(Tail(chunks))

\* lines 335-340: one error per chunk whose index does not parse
RECURSIVE InvalidIndexErrors(_)
InvalidIndexErrors(chunks) ==
    IF chunks = <<>> THEN <<>>
    ELSE LET idx == ParseUsize(LastSegment(Head(chunks).name))
         IN  (IF idx >= 0 THEN <<>>
              ELSE <<VerifyError("chunk_name", "", Head(chunks).name,
                                 "Invalid chunk index in filename", <<>>)>>)
             \o InvalidIndexErrors(Tail(chunks))

\* variant of the expected range that starts at 1
RangeFromZero_FromOne(n) == [k \in 1..n |-> k]

\* (0..indices.len()).collect::<Vec<_>>()
RangeFromZero(n) == [k \in 1..n |-> k - 1]

\* variant of check_chunk_indices without the duplicate check
check_chunk_indices_NoDuplicateCheck(chunks, dir_name, errs) ==
    LET indices == Dedup(SortInts(ParsedIndices(chunks)))
        gap ==
            IF indices # <<>> /\ indices # RangeFromZero(Len(indices))
            THEN <<VerifyError("dir_name", dir_name, <<>>,
                               "Chunk indices are not contiguous from 0", indices)>>
            ELSE <<>>
    IN  errs \o InvalidIndexErrors(chunks) \o gap

\* check_chunk_indices: the errors list after the call
check_chunk_indices(chunks, dir_name, errs) ==
    LET indices == Dedup(SortInts(ParsedIndices(chunks)))
        dup ==
            IF Len(indices) # Len(chunks)
            THEN <<VerifyError("dir_name", dir_name, <<>>,
                               "Duplicate chunk indices found", <<>>)>>
            ELSE <<>>
        gap ==
            IF indices # <<>> /\ indices # RangeFromZero(Len(indices))
            THEN <<VerifyError("dir_name", dir_name, <<>>,
                               "Chunk indices are not contiguous from 0", indices)>>
            ELSE <<>>
    IN  errs \o InvalidIndexErrors(chunks) \o dup \o gap

\* the state of a directory of the dataset
Missing == [state |-> "missing", files |-> {}]
Unreadable == [state |-> "unreadable", files |-> {}]
Dir(files) == [state |-> "listable", files |-> files]

\* the directory `dir_name` of the dataset: Missing, Unreadable, or its files
DirOf(ds, dir_name) ==
    IF dir_name \in DOMAIN ds.dirs THEN ds.dirs[dir_name] ELSE Missing

\* the entries std::fs::read_dir yields whose name starts with the prefix
MatchingFiles(dir, prefix) == {f \in dir.files : StartsWith(f.name, prefix)}

\* the orders in which read_dir can yield the files of a set
Orderings(files) ==
    {s \in [1..Cardinality(files) -> files] :
        \A a, b \in 1..Cardinality(files) : a # b => s[a] # s[b]}

\* variant of check_dir_and_list_chunks that accepts a directory without chunks
DirErrors_MissingOnly(ds, dir_name, prefix) ==
    LET dir == DirOf(ds, dir_name)
    IN  IF dir = Missing
        THEN <<VerifyError("dir_path", dir_name, <<>>, "Directory does not exist", <<>>)>>
        ELSE IF dir = Unreadable
        THEN <<VerifyError("dir_path", dir_name, <<>>, "Failed to read directory", <<>>)>>
        ELSE <<>>

\* check_dir_and_list_chunks: the errors it pushes
DirErrors(ds, dir_name, prefix) ==
    LET dir == DirOf(ds, dir_name)
    IN  IF dir = Missing
        THEN <<VerifyError("dir_path", dir_name, <<>>, "Directory does not exist", <<>>)>>
        ELSE IF dir = Unreadable
        THEN <<VerifyError("dir_path", dir_name, <<>>, "Failed to read directory", <<>>)>>
        ELSE IF MatchingFiles(dir, prefix) = {}
        THEN <<VerifyError("dir_path", dir_name, <<>>,
                           "Directory is empty (no matching chunk files)", <<>>)>>
        ELSE <<>>

\* check_dir_and_list_chunks: the lists it can return
DirChunkLists(ds, dir_name, prefix) ==
    LET dir == DirOf(ds, dir_name)
    IN  IF dir = Missing \/ dir = Unreadable THEN {<<>>}
        ELSE Orderings(MatchingFiles(dir, prefix))

\* the bytes of a chunk file: an RLP list of n (key, account) pairs, an RLP
\* list of (key path, slot list) entries, bytes that are no RLP, or a file
\* std::fs::read fails on
AccountsRlp(n) == [kind |-> "accounts", items |-> n, slots |-> <<>>]
StoragesRlp(slots) == [kind |-> "storages", items |-> Len(slots), slots |-> slots]
GarbageBytes == [kind |-> "garbage", items |-> 0, slots |-> <<>>]
NoRead == [kind |-> "unreadable", items |-> 0, slots |-> <<>>]

File(name, content) == [name |-> name, content |-> content]

\* variant of the account loop that stops at the first chunk that fails
RECURSIVE DecodeAccounts_StopAtFailure(_, _, _, _)
DecodeAccounts_StopAtFailure(chunks, dir_name, errs, total) ==
    IF chunks = <<>> THEN <<errs, total>>
    ELSE LET f == Head(chunks)
         IN  IF f.content.kind = "unreadable"
             THEN <<Append(errs, VerifyError("chunk_path", dir_name, f.name,
                                             "Failed to read file", <<>>)), total>>
             ELSE IF f.content.kind # "accounts"
             THEN <<Append(errs, VerifyError("chunk_path", dir_name, f.name,
                                             "Failed to decode account RLP", <<>>)), total>>
             ELSE DecodeAccounts_StopAtFailure(Tail(chunks), dir_name, errs,
                                               total + f.content.items)

\* lines 94-110: decode the account chunks; <<errors, total_accounts>>
RECURSIVE DecodeAccounts(_, _, _, _)
DecodeAccounts(chunks, dir_name, errs, total) ==
    IF chunks = <<>> THEN <<errs, total>>
    ELSE LET f == Head(chunks)
         IN  IF f.content.kind = "unreadable"
             THEN DecodeAccounts(Tail(chunks), dir_name,
                      Append(errs, VerifyError("chunk_path", dir_name, f.name,
                                               "Failed to read file", <<>>)), total)
             ELSE IF f.content.kind # "accounts"
             THEN DecodeAccounts(Tail(chunks), dir_name,
                      Append(errs, VerifyError("chunk_path", dir_name, f.name,
                                               "Failed to decode account RLP", <<>>)), total)
             ELSE DecodeAccounts(Tail(chunks), dir_name, errs, total + f.content.items)

RECURSIVE SumInts(_)
SumInts(s) == IF s = <<>> THEN 0 ELSE Head(s) + SumInts(Tail(s))

\* lines 112-132: decode the storage chunks; <<errors, total_storage_slots>>
RECURSIVE DecodeStorages(_, _, _, _)
DecodeStorages(chunks, dir_name, errs, total) ==
    IF chunks = <<>> THEN <<errs, total>>
    ELSE LET f == Head(chunks)
         IN  IF f.content.kind = "unreadable"
             THEN DecodeStorages(Tail(chunks), dir_name,
                      Append(errs, VerifyError("chunk_path", dir_name, f.name,
                                               "Failed to read file", <<>>)), total)
             ELSE IF f.content.kind # "storages"
             THEN DecodeStorages(Tail(chunks), dir_name,
                      Append(errs, VerifyError("chunk_path", dir_name, f.name,
                                               "Failed to decode storage RLP", <<>>)), total)
             ELSE DecodeStorages(Tail(chunks), dir_name, errs,
                                 total + SumInts(f.content.slots))

\* ---- the datasets

AccName(suffix) == AccPrefix \o suffix
StorageName(suffix) == StoragePrefix \o suffix

\* sample entries of the account snapshot directory
AccountFiles ==
    {File(AccName(<<".", "0">>), AccountsRlp(3)),
     File(AccName(<<".", "0">>), GarbageBytes),
     File(AccName(<<".", "1">>), AccountsRlp(1)),
     File(AccName(<<".", "1">>), NoRead),
     File(AccName(<<".", "2">>), AccountsRlp(0)),
     File(AccName(<<".", "0", "0">>), AccountsRlp(1)),
     File(AccName(<<".", "0", ".", "bak">>), AccountsRlp(1)),
     File(AccName(<<>>), AccountsRlp(1)),
     File(<<"dummy", ".", "rlp", ".", "0">>, GarbageBytes)}

\* a directory holds at most one file of a name
UniqueNames(files) == \A f, g \in files : f.name = g.name => f = g

AccountDirs ==
    {Missing} \cup
    {Dir(d) : d \in {e \in SUBSET AccountFiles :
                        Cardinality(e) <= MaxChunks /\ UniqueNames(e)}}

S0 == File(StorageName(<<".", "0">>), StoragesRlp(<<2>>))
S0Bad == File(StorageName(<<".", "0">>), GarbageBytes)
S1 == File(StorageName(<<".", "1">>), StoragesRlp(<<1, 1>>))
SPlus0 == File(StorageName(<<".", "+", "0">>), StoragesRlp(<<>>))

\* sample states of the storage snapshot directory
StorageDirs ==
    {Missing, Unreadable, Dir({}), Dir({S0}), Dir({S0Bad}), Dir({S1}), Dir({S0, S1}),
     Dir({S0, SPlus0})}

DefaultPaths ==
    [account_state_snapshots_dir |-> DefaultAccDir,
     account_storages_snapshots_dir |-> DefaultStorageDir]

AltPaths ==
    [account_state_snapshots_dir |-> AltAccDir,
     account_storages_snapshots_dir |-> AltStorageDir]

Manifest(version, paths) == Some([version |-> version, paths |-> paths])

\* what load_manifest can return: Err (None here), or the manifest
Manifests ==
    {None} \cup {Manifest(v, paths) : v \in {1, 2}, paths \in {DefaultPaths, AltPaths}}

\* the four directories of a dataset that has both the default and the
\* alternative snapshot directories
Layout(acc, storage, alt_acc, alt_storage) ==
    [n \in {DefaultAccDir, DefaultStorageDir, AltAccDir, AltStorageDir} |->
        IF n = DefaultAccDir THEN acc
        ELSE IF n = DefaultStorageDir THEN storage
        ELSE IF n = AltAccDir THEN alt_acc
        ELSE alt_storage]

A0 == File(AccName(<<".", "0">>), AccountsRlp(3))
A0Bad == File(AccName(<<".", "0">>), GarbageBytes)
A00 == File(AccName(<<".", "0", "0">>), AccountsRlp(1))
A1 == File(AccName(<<".", "1">>), AccountsRlp(1))
A2 == File(AccName(<<".", "2">>), AccountsRlp(0))

\* sample datasets whose snapshot directories differ between the default and
\* the alternative names
AltLayouts ==
    {Layout(Missing, Missing, Dir({A0, A1}), Dir({S0, S1})),
     Layout(Dir({A0}), Dir({S0}), Dir({A0, A2}), Dir({})),
     Layout(Dir({A0Bad}), Dir({S0Bad}), Dir({A0}), Dir({S0})),
     Layout(Dir({A0, A00}), Missing, Missing, Dir({S0}))}

\* datasets with the default directories only, under a manifest that names
\* them or no manifest; and the sample layouts under every manifest
Datasets ==
    {[manifest |-> m,
      dirs |-> [n \in {DefaultAccDir, DefaultStorageDir} |->
                    IF n = DefaultAccDir THEN a ELSE st]] :
        m \in {None, Manifest(1, DefaultPaths), Manifest(2, DefaultPaths)},
        a \in AccountDirs, st \in StorageDirs}
    \cup {[manifest |-> m, dirs |-> l] : m \in Manifests, l \in AltLayouts}

VerifyOptionsSet == [strict : BOOLEAN, json_out : BOOLEAN, json_stdout : BOOLEAN]

VerifyInit ==
    /\ OutInit /\ ProfileIdle /\ CompareIdle /\ LibIdle
    /\ v_opts \in VerifyOptionsSet
    /\ dataset \in Datasets
    /\ v_pc = "manifest"
    /\ manifest = None
    /\ errors = <<>>
    /\ stats = [account_chunks |-> 0, storage_chunks |-> 0,
                total_accounts |-> 0, total_storage_slots |-> 0]
    /\ acc_chunks = <<>>
    /\ storage_chunks = <<>>
    /\ verify_result = None

\* variant of the manifest check that records nothing when the load fails
ManifestErrors_Silent(m) ==
    IF m # None /\ Unwrap(m).version # 1
    THEN <<VerifyError("manifest", "", <<>>, "Unsupported manifest version",
                       <<Unwrap(m).version>>)>>
    ELSE <<>>

\* lines 45-65: load the manifest, check its version
ManifestErrors(m) ==
    IF m = None
    THEN <<VerifyError("manifest", "", <<>>, "Failed to load manifest", <<>>)>>
    ELSE IF Unwrap(m).version # 1
    THEN <<VerifyError("manifest", "", <<>>, "Unsupported manifest version",
                       <<Unwrap(m).version>>)>>
    ELSE <<>>

CheckManifest ==
    /\ v_pc = "manifest"
    /\ manifest' = dataset.manifest
    /\ errors' = errors \o ManifestErrors(dataset.manifest)
    /\ v_pc' = "dirs"
    /\ UNCHANGED <<out_vars, v_opts, dataset, stats, acc_chunks, storage_chunks,
                   verify_result>>
    /\ UNCHANGED <<profile_vars, compare_vars, lib_vars>>

\* variant that takes the account directory name only from a manifest of the
\* supported version
acc_dir_name_SupportedVersionOnly ==
    IF manifest # None /\ Unwrap(manifest).version = 1
    THEN Unwrap(manifest).paths.account_state_snapshots_dir
    ELSE DefaultAccDir

\* lines 67-75: the directory names, from the manifest or the defaults
acc_dir_name ==
    IF manifest # None THEN Unwrap(manifest).paths.account_state_snapshots_dir
    ELSE DefaultAccDir

storage_dir_name ==
    IF manifest # None THEN Unwrap(manifest).paths.account_storages_snapshots_dir
    ELSE DefaultStorageDir

\* lines 77-86: list the chunks of both directories
ListChunks ==
    /\ v_pc = "dirs"
    /\ acc_chunks' \in DirChunkLists(dataset, acc_dir_name, AccPrefix)
    /\ storage_chunks' \in DirChunkLists(dataset, storage_dir_name, StoragePrefix)
    /\ errors' = errors \o DirErrors(dataset, acc_dir_name, AccPrefix)
                        \o DirErrors(dataset, storage_dir_name, StoragePrefix)
    /\ stats' = [stats EXCEPT !.account_chunks = Len(acc_chunks'),
                              !.storage_chunks = Len(storage_chunks')]
    /\ v_pc' = "indices"
    /\ UNCHANGED <<out_vars, v_opts, dataset, manifest, verify_result>>
    /\ UNCHANGED <<profile_vars, compare_vars, lib_vars>>

\* lines 88-90
CheckIndices ==
    /\ v_pc = "indices"
    /\ errors' = check_chunk_indices(storage_chunks, storage_dir_name,
                     check_chunk_indices(acc_chunks, acc_dir_name, errors))
    /\ v_pc' = "decode"
    /\ UNCHANGED <<out_vars, v_opts, dataset, manifest, stats, acc_chunks,
                   storage_chunks, verify_result>>
    /\ UNCHANGED <<profile_vars, compare_vars, lib_vars>>

\* lines 135-142
VerifyResult(errs, st) ==
    [schema_version |-> 1, valid |-> (errs = <<>>), strict |-> v_opts.strict,
     errors |-> errs, stats |-> st]

\* variant that decodes the chunks in base mode too
DecodeAndBuild_AlwaysDecode ==
    /\ v_pc = "decode"
    /\ LET acc == DecodeAccounts(acc_chunks, acc_dir_name, errors, 0)
           sto == DecodeStorages(storage_chunks, storage_dir_name, acc[1], 0)
       IN  /\ errors' = sto[1]
           /\ stats' = [stats EXCEPT !.total_accounts = acc[2],
                                     !.total_storage_slots = sto[2]]
           /\ verify_result' = Some(VerifyResult(errors', stats'))
    /\ v_pc' = "emit"
    /\ UNCHANGED <<out_vars, v_opts, dataset, manifest, acc_chunks, storage_chunks>>
    /\ UNCHANGED <<profile_vars, compare_vars, lib_vars>>

\* lines 92-142: in strict mode decode every chunk; build the result
DecodeAndBuild ==
    /\ v_pc = "decode"
    /\ LET acc == IF v_opts.strict
                  THEN DecodeAccounts(acc_chunks, acc_dir_name, errors, 0)
                  ELSE <<errors, 0>>
           sto == IF v_opts.strict
                  THEN DecodeStorages(storage_chunks, storage_dir_name, acc[1], 0)
                  ELSE <<acc[1], 0>>
       IN  /\ errors' = sto[1]
           /\ stats' = [stats EXCEPT !.total_accounts = acc[2],
                                     !.total_storage_slots = sto[2]]
           /\ verify_result' = Some(VerifyResult(errors', stats'))
    /\ v_pc' = "emit"
    /\ UNCHANGED <<out_vars, v_opts, dataset, manifest, acc_chunks, storage_chunks>>
    /\ UNCHANGED <<profile_vars, compare_vars, lib_vars>>

VerifyReturn(r) ==
    /\ result' = r
    /\ v_pc' = "done"

\* variant of EmitVerifyResult that emits the JSON of a valid result only
EmitVerifyResult_ValidOnly ==
    /\ v_pc = "emit"
    /\ json_file' = IF v_opts.json_out /\ Unwrap(verify_result).valid
                    THEN verify_result ELSE json_file
    /\ stdout' = IF v_opts.json_stdout /\ Unwrap(verify_result).valid
                 THEN Append(stdout, Printed("json", Unwrap(verify_result)))
                 ELSE stdout
    /\ v_pc' = "ret"
    /\ UNCHANGED <<result, v_opts, dataset, manifest, errors, stats, acc_chunks,
                   storage_chunks, verify_result>>
    /\ UNCHANGED <<profile_vars, compare_vars, lib_vars>>

\* lines 163-172: the JSON result, to the file and to stdout
EmitVerifyResult ==
    /\ v_pc = "emit"
    /\ json_file' = IF v_opts.json_out THEN verify_result ELSE json_file
    /\ stdout' = IF v_opts.json_stdout
                 THEN Append(stdout, Printed("json", Unwrap(verify_result)))
                 ELSE stdout
    /\ v_pc' = "ret"
    /\ UNCHANGED <<result, v_opts, dataset, manifest, errors, stats, acc_chunks,
                   storage_chunks, verify_result>>
    /\ UNCHANGED <<profile_vars, compare_vars, lib_vars>>

\* line 166: std::fs::write(json_path, json)? fails
EmitVerifyResultFails ==
    /\ v_pc = "emit"
    /\ v_opts.json_out
    /\ VerifyReturn("Err:Io")
    /\ UNCHANGED <<stdout, json_file, v_opts, dataset, manifest, errors, stats, acc_chunks,
                   storage_chunks, verify_result>>
    /\ UNCHANGED <<profile_vars, compare_vars, lib_vars>>

\* lines 174-181
ReturnVerify ==
    /\ v_pc = "ret"
    /\ VerifyReturn(IF ~Unwrap(verify_result).valid THEN "Err:Invalid" ELSE "Ok")
    /\ UNCHANGED <<stdout, json_file, v_opts, dataset, manifest, errors, stats, acc_chunks,
                   storage_chunks, verify_result>>
    /\ UNCHANGED <<profile_vars, compare_vars, lib_vars>>

\* verify_dataset (lines 231-324): the VerifyResult for a dataset, given the
\* order in which read_dir listed the chunks of the two directories
verify_dataset(ds, strict, acc_list, storage_list) ==
    LET m == ds.manifest
        acc_name == IF m # None THEN Unwrap(m).paths.account_state_snapshots_dir
                    ELSE DefaultAccDir
        storage_name == IF m # None THEN Unwrap(m).paths.account_storages_snapshots_dir
                        ELSE DefaultStorageDir
        listed == ManifestErrors(m) \o DirErrors(ds, acc_name, AccPrefix)
                                   \o DirErrors(ds, storage_name, StoragePrefix)
        indexed == check_chunk_indices(storage_list, storage_name,
                       check_chunk_indices(acc_list, acc_name, listed))
        acc == IF strict THEN DecodeAccounts(acc_list, acc_name, indexed, 0)
               ELSE <<indexed, 0>>
        sto == IF strict THEN DecodeStorages(storage_list, storage_name, acc[1], 0)
               ELSE <<acc[1], 0>>
    IN  [schema_version |-> 1, valid |-> (sto[1] = <<>>), strict |-> strict,
         errors |-> sto[1],
         stats |-> [account_chunks |-> Len(acc_list),
                    storage_chunks |-> Len(storage_list),
                    total_accounts |-> acc[2],
                    total_storage_slots |-> sto[2]]]

VerifyNext ==
    \/ CheckManifest
    \/ ListChunks
    \/ CheckIndices
    \/ DecodeAndBuild
    \/ EmitVerifyResult
    \/ EmitVerifyResultFails
    \/ ReturnVerify

VerifySpec == VerifyInit /\ [][VerifyNext]_vars

----------------------------------------------------------------------------
(* PhaseStats::from_durations in IEEE-754 binary64 (src/src/snapsync/report.rs). *)
(* A finite non-negative f64 is [m, e]: the 53 significand bits, most      *)
(* significant first and leading with 1, and the exponent of the last bit; *)
(* its value is m * 2^e.  Zero has no bits.  Every operation rounds to     *)
(* nearest, ties to even, as the hardware does.                            *)

F64Precision == 53
NanosPerSec == 1000000000
\* fraction bits a quotient is computed to before rounding; a divisor is
\* below 2^30, so the quotient keeps more than F64Precision + 1 bits
DivExtraBits == 32

F64Zero == [m |-> <<>>, e |-> 0]

Zeros(k) == [j \in 1..k |-> 0]

\* the binary digits of a natural number
NatBits(n) ==
    LET len == IF n = 0 THEN 0 ELSE CHOOSE l \in 1..31 : n \div 2^(l - 1) = 1
    IN  [k \in 1..len |-> (n \div 2^(len - k)) % 2]

\* the bits from the first 1 on
StripZeros(bits) ==
    IF \A k \in 1..Len(bits) : bits[k] = 0 THEN <<>>
    ELSE LET first == CHOOSE k \in 1..Len(bits) :
                          bits[k] = 1 /\ \A j \in 1..(k - 1) : bits[j] = 0
         IN  SubSeq(bits, first, Len(bits))

\* bits + 1
Increment(bits) ==
    IF \A k \in 1..Len(bits) : bits[k] = 1 THEN <<1>> \o Zeros(Len(bits))
    ELSE LET last == CHOOSE k \in 1..Len(bits) :
                         bits[k] = 0 /\ \A j \in (k + 1)..Len(bits) : bits[j] = 1
         IN  SubSeq(bits, 1, last - 1) \o <<1>> \o Zeros(Len(bits) - last)

\* the f64 nearest to bits * 2^e (plus a positive amount below 2^e when
\* `sticky`), ties to even
RoundF64(bits, e, sticky) ==
    LET b == StripZeros(bits)
        n == Len(b)
    IN  IF n = 0 THEN F64Zero
        ELSE IF n <= F64Precision
        THEN [m |-> b \o Zeros(F64Precision - n), e |-> e - (F64Precision - n)]
        ELSE LET kept == SubSeq(b, 1, F64Precision)
                 guard == b[F64Precision + 1]
                 below == sticky \/ \E k \in (F64Precision + 2)..n : b[k] = 1
                 up == guard = 1 /\ (below \/ kept[F64Precision] = 1)
                 e2 == e + (n - F64Precision)
                 inc == Increment(kept)
             IN  IF ~up THEN [m |-> kept, e |-> e2]
                 ELSE IF Len(inc) > F64Precision
                 THEN [m |-> SubSeq(inc, 1, F64Precision), e |-> e2 + 1]
                 ELSE [m |-> inc, e |-> e2]

\* n as f64
F64OfNat(n) == RoundF64(NatBits(n), 0, FALSE)

\* the carry into position k of the sum of two bit strings of one length:
\* some less significant position generates a carry and every position between
\* propagates it
CarryInto(a, b, k) ==
    \E g \in (k + 1)..Len(a) :
        /\ a[g] + b[g] = 2
        /\ \A j \in (k + 1)..(g - 1) : a[j] + b[j] = 1

\* the sum of two bit strings of one length, one bit longer
AddBits(a, b) ==
    [k \in 1..(Len(a) + 1) |->
        IF k = 1 THEN (IF CarryInto(a, b, 0) THEN 1 ELSE 0)
        ELSE (a[k - 1] + b[k - 1] + (IF CarryInto(a, b, k - 1) THEN 1 ELSE 0)) % 2]

\* x + y
F64Add(x, y) ==
    IF x.m = <<>> THEN y
    ELSE IF y.m = <<>> THEN x
    ELSE LET e == IF x.e < y.e THEN x.e ELSE y.e
             xa == x.m \o Zeros(x.e - e)
             ya == y.m \o Zeros(y.e - e)
             n == IF Len(xa) > Len(ya) THEN Len(xa) ELSE Len(ya)
         IN  RoundF64(AddBits(Zeros(n - Len(xa)) \o xa, Zeros(n - Len(ya)) \o ya),
                      e, FALSE)

\* bits processed by one run of the bitwise division
DivBlock == 8

\* bitwise long division of a short bit string by d, from the remainder
\* `rem`: <<quotient bits, remainder>>
RECURSIVE LongDivBlock(_, _, _)
LongDivBlock(bits, d, rem) ==
    IF bits = <<>> THEN <<(<<>>), rem>>
    ELSE LET n == Len(bits)
             front == LongDivBlock(SubSeq(bits, 1, n - 1), d, rem)
             r == 2 * front[2] + bits[n]
         IN  IF r >= d THEN <<Append(front[1], 1), r - d>>
             ELSE <<Append(front[1], 0), r>>

\* long division of a bit string by d: the front half, then the back half
\* from the remainder the front half leaves
RECURSIVE LongDiv(_, _, _)
LongDiv(bits, d, rem) ==
    IF Len(bits) <= DivBlock THEN LongDivBlock(bits, d, rem)
    ELSE LET n == Len(bits)
             front == LongDiv(SubSeq(bits, 1, n \div 2), d, rem)
         IN  IF front[2] < 0 THEN front
             ELSE LET back == LongDiv(SubSeq(bits, n \div 2 + 1, n), d, front[2])
                  IN  <<front[1] \o back[1], back[2]>>

\* x / (d as f64), for a natural d with 0 < d < 2^30
F64DivNat(x, d) ==
    IF x.m = <<>> THEN F64Zero
    ELSE LET qr == LongDiv(x.m \o Zeros(DivExtraBits), d, 0)
         IN  RoundF64(qr[1], x.e - DivExtraBits, qr[2] # 0)

\* a < b for bit strings of one length
BitsLess(a, b) ==
    \E k \in 1..Len(a) : a[k] < b[k] /\ \A j \in 1..(k - 1) : a[j] = b[j]

\* x < y
F64Less(x, y) ==
    IF y.m = <<>> THEN FALSE
    ELSE IF x.m = <<>> THEN TRUE
    ELSE x.e < y.e \/ (x.e = y.e /\ BitsLess(x.m, y.m))

F64Leq(x, y) == ~F64Less(y, x)

\* a std::time::Duration
Duration(secs, nanos) == [secs |-> secs, nanos |-> nanos]

\* Duration::as_secs_f64: (secs as f64) + (nanos as f64) / (NANOS_PER_SEC as f64)
as_secs_f64(d) == F64Add(F64OfNat(d.secs), F64DivNat(F64OfNat(d.nanos), NanosPerSec))

\* line 78: sorted.sort_by(partial_cmp), a stable sort: element j goes to the
\* position after the smaller elements and the equal ones before it
F64Sort(s) ==
    LET n == Len(s)
        pos == [j \in 1..n |->
                   Cardinality({k \in 1..n :
                                   \/ F64Less(s[k], s[j])
                                   \/ (k < j /\ ~F64Less(s[j], s[k]))}) + 1]
    IN  IF pos = <<>> THEN <<>>
        ELSE [at \in 1..n |-> s[CHOOSE j \in 1..n : pos[j] = at]]

\* sorted.iter().sum::<f64>(): the additions in order from acc, each rounded
\* (the sequence is folded half after half, which keeps the order)
RECURSIVE F64Sum(_, _)
F64Sum(s, acc) ==
    IF s = <<>> THEN acc
    ELSE IF Len(s) = 1 THEN F64Add(acc, s[1])
    ELSE LET h == Len(s) \div 2
             front == F64Sum(SubSeq(s, 1, h), acc)
         IN  IF front.m = <<>> THEN F64Sum(SubSeq(s, h + 1, Len(s)), F64Zero)
             ELSE F64Sum(SubSeq(s, h + 1, Len(s)), front)

\* the bits of m * k, for the bits of k
RECURSIVE MulBits(_, _)
MulBits(m, kbits) ==
    IF kbits = <<>> THEN Zeros(Len(m))
    ELSE LET doubled == MulBits(m, SubSeq(kbits, 1, Len(kbits) - 1)) \o <<0>>
         IN  IF kbits[Len(kbits)] = 0 THEN doubled
             ELSE AddBits(doubled, Zeros(Len(doubled) - Len(m)) \o m)

\* x * (k as f64), for a natural k
F64MulNat(x, k) ==
    IF x.m = <<>> \/ k = 0 THEN F64Zero
    ELSE RoundF64(MulBits(x.m, NatBits(k)), x.e, FALSE)

\* the natural number of a bit string
RECURSIVE BitsValue(_)
BitsValue(bits) ==
    IF bits = <<>> THEN 0
    ELSE 2 * BitsValue(SubSeq(bits, 1, Len(bits) - 1)) + bits[Len(bits)]

\* x.round() as usize: the nearest integer, halves away from zero; x is below
\* 2^30
F64RoundToNat(x) ==
    IF x.m = <<>> THEN 0
    ELSE IF x.e >= 0 THEN BitsValue(x.m \o Zeros(x.e))
    ELSE LET frac == 0 - x.e
             pad == IF frac + 1 > Len(x.m) THEN frac + 1 - Len(x.m) ELSE 0
             b == Zeros(pad) \o x.m
             whole == Len(b) - frac
         IN  BitsValue(StripZeros(SubSeq(b, 1, whole))) + b[whole + 1]

\* variant of the index that truncates instead of rounding
percentile_idx_Truncated(p, n) ==
    LET x == F64MulNat(F64DivNat(F64OfNat(p), 100), n - 1)
    IN  IF x.m = <<>> THEN 0
        ELSE IF 0 - x.e >= Len(x.m) THEN 0
        ELSE BitsValue(SubSeq(x.m, 1, Len(x.m) + x.e))

\* the index the closure `percentile` computes, lines 109-110
percentile_idx(p, n) ==
    F64RoundToNat(F64MulNat(F64DivNat(F64OfNat(p), 100), n - 1))

\* variant of the closure that takes the index from n instead of n - 1
percentile_f64_OfLen(sorted, p) ==
    LET n == Len(sorted)
    IN  sorted[Min2(F64RoundToNat(F64MulNat(F64DivNat(F64OfNat(p), 100), n)), n - 1) + 1]

\* the closure `percentile`, lines 109-112
percentile_f64(sorted, p) ==
    LET n == Len(sorted)
    IN  sorted[Min2(percentile_idx(p, n), n - 1) + 1]

\* variant of from_durations that takes the upper central element as the
\* median of an even number of samples
from_durations_f64_UpperMedian(ds) ==
    LET sorted == F64Sort([k \in 1..Len(ds) |-> as_secs_f64(ds[k])])
        n == Len(sorted)
    IN  IF n = 0
        THEN [median_secs |-> F64Zero, mean_secs |-> F64Zero,
              p95_secs |-> F64Zero, p99_secs |-> F64Zero,
              min_secs |-> F64Zero, max_secs |-> F64Zero]
        ELSE [median_secs |-> sorted[n \div 2 + 1],
              mean_secs |-> F64DivNat(F64Sum(sorted, F64Zero), n),
              p95_secs |-> percentile_f64(sorted, 95),
              p99_secs |-> percentile_f64(sorted, 99),
              min_secs |-> sorted[1],
              max_secs |-> sorted[n]]

\* from_durations, lines 76-123: all it returns but the standard deviation
from_durations_f64(ds) ==
    LET sorted == F64Sort([k \in 1..Len(ds) |-> as_secs_f64(ds[k])])
        n == Len(sorted)
    IN  IF n = 0
        THEN [median_secs |-> F64Zero, mean_secs |-> F64Zero,
              p95_secs |-> F64Zero, p99_secs |-> F64Zero,
              min_secs |-> F64Zero, max_secs |-> F64Zero]
        ELSE [median_secs |->
                  IF n % 2 = 1 THEN sorted[n \div 2 + 1]
                  ELSE F64DivNat(F64Add(sorted[n \div 2], sorted[n \div 2 + 1]), 2),
              mean_secs |-> F64DivNat(F64Sum(sorted, F64Zero), n),
              p95_secs |-> percentile_f64(sorted, 95),
              p99_secs |-> percentile_f64(sorted, 99),
              min_secs |-> sorted[1],
              max_secs |-> sorted[n]]

\* sample durations: 100 ms, 200 ms, 300 ms, 1 s, 1.5 s
DurationSamples ==
    {Duration(0, 100000000), Duration(0, 200000000), Duration(0, 300000000),
     Duration(1, 0), Duration(1, 500000000)}

DurationSeqs == UNION {[1..n -> DurationSamples] : n \in 0..MaxSamples}

\* tests::phase_stats_from_durations: 10 s, 20 s, 30 s, in each order
ExampleSeqs ==
    {<<Duration(a, 0), Duration(b, 0), Duration(c, 0)>> :
        a, b, c \in {10, 20, 30}} \ {q \in [1..3 -> {Duration(a, 0) : a \in {10, 20, 30}}] :
                                        Cardinality({q[k] : k \in 1..3}) < 3}

\* k tenths of a second
Tenths(k) == Duration(k \div 10, (k % 10) * 100000000)

\* the position of the k-th element when the odd positions of 1..n come
\* first and the even ones follow
Interleaved(k, n) == IF k <= (n + 1) \div 2 THEN 2 * k - 1 ELSE 2 * (k - (n + 1) \div 2)

\* longer runs of distinct samples 0.1 s, 0.2 s, ..: ascending, descending and
\* interleaved
LongDurationSeqs ==
    UNION {{[k \in 1..n |-> Tenths(k)],
            [k \in 1..n |-> Tenths(n + 1 - k)],
            [k \in 1..n |-> Tenths(Interleaved(k, n))]} : n \in 1..MaxLongSamples}

\* a < b for Durations
DurationLess(a, b) == a.secs < b.secs \/ (a.secs = b.secs /\ a.nanos < b.nanos)

\* Duration + Duration
DurationAdd(a, b) ==
    LET nanos == a.nanos + b.nanos
    IN  IF nanos >= NanosPerSec THEN Duration(a.secs + b.secs + 1, nanos - NanosPerSec)
        ELSE Duration(a.secs + b.secs, nanos)

\* Duration / u32: the quotient truncated to whole nanoseconds
DurationDivNat(d, n) ==
    LET extra_secs == d.secs % n
        extra_nanos == d.nanos % n
    IN  Duration(d.secs \div n,
                 d.nanos \div n + extra_secs * (NanosPerSec \div n)
                     + (extra_secs * (NanosPerSec % n) + extra_nanos) \div n)

\* durations.sort(), a stable sort: element j goes to the position after the
\* smaller elements and the equal ones before it
DurationSort(s) ==
    LET n == Len(s)
        pos == [j \in 1..n |->
                   Cardinality({k \in 1..n :
                                   \/ DurationLess(s[k], s[j])
                                   \/ (~DurationLess(s[j], s[k]) /\ k < j)}) + 1]
    IN  IF pos = <<>> THEN <<>>
        ELSE [at \in 1..n |-> s[CHOOSE j \in 1..n : pos[j] = at]]

\* durations.iter().sum(), folded half after half
RECURSIVE DurationSum(_)
DurationSum(s) ==
    IF s = <<>> THEN Duration(0, 0)
    ELSE IF Len(s) = 1 THEN s[1]
    ELSE LET h == Len(s) \div 2
         IN  DurationAdd(DurationSum(SubSeq(s, 1, h)), DurationSum(SubSeq(s, h + 1, Len(s))))

\* RunStats (src/src/profiling.rs): median, mean, p95, p99, min and max of
\* RunStats::new(durations), as Durations
RunStatsOf(ds) ==
    LET durations == DurationSort(ds)
        n == Len(durations)
    IN  IF n = 0
        THEN [median |-> Duration(0, 0), mean |-> Duration(0, 0),
              p95 |-> Duration(0, 0), p99 |-> Duration(0, 0),
              min |-> Duration(0, 0), max |-> Duration(0, 0)]
        ELSE [median |->
                  IF n % 2 = 1 THEN durations[n \div 2 + 1]
                  ELSE DurationDivNat(DurationAdd(durations[n \div 2],
                                                  durations[n \div 2 + 1]), 2),
              mean |-> DurationDivNat(DurationSum(durations), n),
              p95 |-> durations[Min2(percentile_idx(95, n), n - 1) + 1],
              p99 |-> durations[Min2(percentile_idx(99, n), n - 1) + 1],
              min |-> durations[1],
              max |-> durations[n]]

StatsInit ==
    /\ OutInit /\ ProfileIdle /\ CompareIdle /\ VerifyIdle
    /\ rt_report = None /\ rt_file = None /\ rt_loaded = None
    /\ l_pc = "call"
    /\ l_durations \in DurationSeqs \cup LongDurationSeqs \cup ExampleSeqs
    /\ phase_stats = None
    /\ run_stats = None

\* one call of PhaseStats::from_durations
FromDurations ==
    /\ l_pc = "call"
    /\ phase_stats' = Some(from_durations_f64(l_durations))
    /\ l_pc' = "done"
    /\ UNCHANGED <<l_durations, run_stats, rt_report, rt_file, rt_loaded>>
    /\ UNCHANGED <<out_vars, profile_vars, compare_vars, verify_vars>>

\* RunStats::new and its accessors on the same durations (snapsync.rs lines
\* 168-179 hand RunStats and from_durations the same vector)
NewRunStats ==
    /\ run_stats = None
    /\ l_pc \in {"call", "done"}
    /\ run_stats' = Some(RunStatsOf(l_durations))
    /\ UNCHANGED <<l_pc, l_durations, phase_stats, rt_report, rt_file, rt_loaded>>
    /\ UNCHANGED <<out_vars, profile_vars, compare_vars, verify_vars>>

StatsNext ==
    \/ FromDurations
    \/ NewRunStats

StatsSpec == StatsInit /\ [][StatsNext]_vars

----------------------------------------------------------------------------
(* SnapProfileReportV1::write_to_file / load_from_file                      *)
(* (src/src/snapsync/report.rs).  A String is a sequence of tokens: the    *)
(* characters that JSON escapes, and runs of other characters.  A JSON     *)
(* value is [t, v]: its type and its text or its parts.                    *)

JNumber(text) == [t |-> "number", v |-> text]
JString(text) == [t |-> "string", v |-> text]
JBool(text) == [t |-> "bool", v |-> text]
JArray(items) == [t |-> "array", v |-> items]
JObject(members) == [t |-> "object", v |-> members]
Member(key, value) == [key |-> key, value |-> value]

\* the decimal digits of a natural number
RECURSIVE NatDigits(_)
NatDigits(n) ==
    IF n < 10 THEN <<Digits[n + 1]>> ELSE NatDigits(n \div 10) \o <<Digits[(n % 10) + 1]>>

RECURSIVE Pow10(_)
Pow10(k) == IF k = 0 THEN 1 ELSE 10 * Pow10(k - 1)

\* the digits of n, padded with zeros on the left to k digits
PaddedDigits(n, k) ==
    LET d == NatDigits(n) IN [j \in 1..(k - Len(d)) |-> "0"] \o d

\* the characters a JSON string escapes with a backslash, and their escapes
Escaped == {"\"", "\\", "\n"}
EscapeOf(c) == IF c = "\n" THEN "n" ELSE c
UnescapeOf(c) == IF c = "n" THEN "\n" ELSE c

\* the text of a String between the quotes of a JSON string
RECURSIVE Escape(_)
Escape(str) ==
    IF str = <<>> THEN <<>>
    ELSE (IF Head(str) \in Escaped THEN <<"\\", EscapeOf(Head(str))>> ELSE <<Head(str)>>)
         \o Escape(Tail(str))

\* the String a JSON string text denotes
RECURSIVE Unescape(_)
Unescape(text) ==
    IF text = <<>> THEN <<>>
    ELSE IF Head(text) = "\\" /\ Len(text) >= 2
    THEN <<UnescapeOf(text[2])>> \o Unescape(Tail(Tail(text)))
    ELSE <<Head(text)>> \o Unescape(Tail(text))

\* Serialize / Deserialize for u32, u64, usize
Ser_UInt(n) == JNumber(NatDigits(n))
Is_UInt(j) == j.t = "number" /\ DigitsValue(j.v, 0) >= 0
De_UInt(j) == DigitsValue(j.v, 0)

\* Serialize / Deserialize for bool
Ser_Bool(b) == JBool(IF b THEN <<"true">> ELSE <<"false">>)
Is_Bool(j) == j.t = "bool"
De_Bool(j) == j.v = <<"true">>

\* Serialize / Deserialize for String
Ser_String(str) == JString(Escape(str))
Is_String(j) == j.t = "string"
De_String(j) == Unescape(j.v)

\* decimal places a sample value needs at most
MaxDecimals == 4

\* the JSON number of a finite non-negative f64 with a short decimal form:
\* integer digits, ".", fraction digits (at least one)
Ser_F64(x) ==
    LET k == CHOOSE d \in 1..MaxDecimals :
                 /\ (x[1] * Pow10(d)) % x[2] = 0
                 /\ \A c \in 1..(d - 1) : (x[1] * Pow10(c)) % x[2] # 0
        scaled == (x[1] * Pow10(k)) \div x[2]
    IN  JNumber(NatDigits(scaled \div Pow10(k)) \o <<".">>
                \o PaddedDigits(scaled % Pow10(k), k))

\* the position of the decimal point in a number text, 0 if it has none
PointAt(text) ==
    IF \E k \in 1..Len(text) : text[k] = "." THEN CHOOSE k \in 1..Len(text) : text[k] = "."
    ELSE 0

Is_F64(j) ==
    /\ j.t = "number"
    /\ LET p == PointAt(j.v)
       IN  IF p = 0 THEN DigitsValue(j.v, 0) >= 0
           ELSE /\ p > 1 /\ p < Len(j.v)
                /\ DigitsValue(SubSeq(j.v, 1, p - 1), 0) >= 0
                /\ DigitsValue(SubSeq(j.v, p + 1, Len(j.v)), 0) >= 0

De_F64(j) ==
    LET p == PointAt(j.v)
    IN  IF p = 0 THEN RatOfInt(DigitsValue(j.v, 0))
        ELSE LET frac == SubSeq(j.v, p + 1, Len(j.v))
             IN  Rat(DigitsValue(SubSeq(j.v, 1, p - 1), 0) * Pow10(Len(frac))
                         + DigitsValue(frac, 0),
                     Pow10(Len(frac)))

\* stddev_secs is kept as the square root of a variance: the f64 it denotes
\* and back
RootOf(st) ==
    CHOOSE r \in {RatZero, Rat(1, 2), RatOfInt(1), RatOfInt(2)} : RatMul(r, r) = st.sqrt_of
SqrtOfSquare(r) == Sqrt(RatMul(r, r))

\* the member of an object with the key: present exactly once, and its value
HasField(j, key) == Cardinality({k \in 1..Len(j.v) : j.v[k].key = key}) = 1
Field(j, key) == j.v[CHOOSE k \in 1..Len(j.v) : j.v[k].key = key].value

\* derive(Serialize, Deserialize) for ToolInfo, lines 18-23
Ser_ToolInfo(x) ==
    JObject(<<Member("name", Ser_String(x.name)),
              Member("version", Ser_String(x.version)),
              Member("git_sha", Ser_String(x.git_sha))>>)

Is_ToolInfo(j) ==
    /\ j.t = "object"
    /\ \A key \in {"name", "version", "git_sha"} : HasField(j, key)
    /\ Is_String(Field(j, "name"))
    /\ Is_String(Field(j, "version"))
    /\ Is_String(Field(j, "git_sha"))

De_ToolInfo(j) ==
    [name |-> De_String(Field(j, "name")),
     version |-> De_String(Field(j, "version")),
     git_sha |-> De_String(Field(j, "git_sha"))]

\* DatasetInfo, lines 25-31
Ser_DatasetInfo(x) ==
    JObject(<<Member("path", Ser_String(x.path)),
              Member("manifest_sha256", Ser_String(x.manifest_sha256)),
              Member("chain_id", Ser_UInt(x.chain_id)),
              Member("pivot_block", Ser_UInt(x.pivot_block))>>)

Is_DatasetInfo(j) ==
    /\ j.t = "object"
    /\ \A key \in {"path", "manifest_sha256", "chain_id", "pivot_block"} : HasField(j, key)
    /\ Is_String(Field(j, "path"))
    /\ Is_String(Field(j, "manifest_sha256"))
    /\ Is_UInt(Field(j, "chain_id"))
    /\ Is_UInt(Field(j, "pivot_block"))

De_DatasetInfo(j) ==
    [path |-> De_String(Field(j, "path")),
     manifest_sha256 |-> De_String(Field(j, "manifest_sha256")),
     chain_id |-> De_UInt(Field(j, "chain_id")),
     pivot_block |-> De_UInt(Field(j, "pivot_block"))]

\* RunConfig, lines 33-38
Ser_RunConfig(x) ==
    JObject(<<Member("backend", Ser_String(x.backend)),
              Member("repeat", Ser_UInt(x.repeat)),
              Member("warmup", Ser_UInt(x.warmup))>>)

Is_RunConfig(j) ==
    /\ j.t = "object"
    /\ \A key \in {"backend", "repeat", "warmup"} : HasField(j, key)
    /\ Is_String(Field(j, "backend"))
    /\ Is_UInt(Field(j, "repeat"))
    /\ Is_UInt(Field(j, "warmup"))

De_RunConfig(j) ==
    [backend |-> De_String(Field(j, "backend")),
     repeat |-> De_UInt(Field(j, "repeat")),
     warmup |-> De_UInt(Field(j, "warmup"))]

\* variant of the RunEntry serialisation that leaves is_warmup out
Ser_RunEntry_SkipWarmup(x) ==
    JObject(<<Member("index", Ser_UInt(x.index)),
              Member("insert_accounts_secs", Ser_F64(x.insert_accounts_secs)),
              Member("insert_storages_secs", Ser_F64(x.insert_storages_secs)),
              Member("total_secs", Ser_F64(x.total_secs)),
              Member("state_root", Ser_String(x.state_root))>>)

\* RunEntry, lines 40-48
Ser_RunEntry(x) ==
    JObject(<<Member("index", Ser_UInt(x.index)),
              Member("is_warmup", Ser_Bool(x.is_warmup)),
              Member("insert_accounts_secs", Ser_F64(x.insert_accounts_secs)),
              Member("insert_storages_secs", Ser_F64(x.insert_storages_secs)),
              Member("total_secs", Ser_F64(x.total_secs)),
              Member("state_root", Ser_String(x.state_root))>>)

Is_RunEntry(j) ==
    /\ j.t = "object"
    /\ \A key \in {"index", "is_warmup", "insert_accounts_secs", "insert_storages_secs", "total_secs", "state_root"} : HasField(j, key)
    /\ Is_UInt(Field(j, "index"))
    /\ Is_Bool(Field(j, "is_warmup"))
    /\ Is_F64(Field(j, "insert_accounts_secs"))
    /\ Is_F64(Field(j, "insert_storages_secs"))
    /\ Is_F64(Field(j, "total_secs"))
    /\ Is_String(Field(j, "state_root"))

De_RunEntry(j) ==
    [index |-> De_UInt(Field(j, "index")),
     is_warmup |-> De_Bool(Field(j, "is_warmup")),
     insert_accounts_secs |-> De_F64(Field(j, "insert_accounts_secs")),
     insert_storages_secs |-> De_F64(Field(j, "insert_storages_secs")),
     total_secs |-> De_F64(Field(j, "total_secs")),
     state_root |-> De_String(Field(j, "state_root"))]

\* PhaseStats, lines 57-66
Ser_PhaseStats(x) ==
    JObject(<<Member("median_secs", Ser_F64(x.median_secs)),
              Member("mean_secs", Ser_F64(x.mean_secs)),
              Member("stddev_secs", Ser_F64(RootOf(x.stddev_secs))),
              Member("p95_secs", Ser_F64(x.p95_secs)),
              Member("p99_secs", Ser_F64(x.p99_secs)),
              Member("min_secs", Ser_F64(x.min_secs)),
              Member("max_secs", Ser_F64(x.max_secs))>>)

Is_PhaseStats(j) ==
    /\ j.t = "object"
    /\ \A key \in {"median_secs", "mean_secs", "stddev_secs", "p95_secs", "p99_secs", "min_secs", "max_secs"} : HasField(j, key)
    /\ Is_F64(Field(j, "median_secs"))
    /\ Is_F64(Field(j, "mean_secs"))
    /\ Is_F64(Field(j, "stddev_secs"))
    /\ Is_F64(Field(j, "p95_secs"))
    /\ Is_F64(Field(j, "p99_secs"))
    /\ Is_F64(Field(j, "min_secs"))
    /\ Is_F64(Field(j, "max_secs"))

De_PhaseStats(j) ==
    [median_secs |-> De_F64(Field(j, "median_secs")),
     mean_secs |-> De_F64(Field(j, "mean_secs")),
     stddev_secs |-> SqrtOfSquare(De_F64(Field(j, "stddev_secs"))),
     p95_secs |-> De_F64(Field(j, "p95_secs")),
     p99_secs |-> De_F64(Field(j, "p99_secs")),
     min_secs |-> De_F64(Field(j, "min_secs")),
     max_secs |-> De_F64(Field(j, "max_secs"))]

\* PhaseSummary, lines 50-55
Ser_PhaseSummary(x) ==
    JObject(<<Member("insert_accounts", Ser_PhaseStats(x.insert_accounts)),
              Member("insert_storages", Ser_PhaseStats(x.insert_storages)),
              Member("total", Ser_PhaseStats(x.total))>>)

Is_PhaseSummary(j) ==
    /\ j.t = "object"
    /\ \A key \in {"insert_accounts", "insert_storages", "total"} : HasField(j, key)
    /\ Is_PhaseStats(Field(j, "insert_accounts"))
    /\ Is_PhaseStats(Field(j, "insert_storages"))
    /\ Is_PhaseStats(Field(j, "total"))

De_PhaseSummary(j) ==
    [insert_accounts |-> De_PhaseStats(Field(j, "insert_accounts")),
     insert_storages |-> De_PhaseStats(Field(j, "insert_storages")),
     total |-> De_PhaseStats(Field(j, "total"))]

\* RootValidation, lines 68-73
Ser_RootValidation(x) ==
    JObject(<<Member("computed", Ser_String(x.computed)),
              Member("expected", Ser_String(x.expected)),
              Member("matches", Ser_Bool(x.matches))>>)

Is_RootValidation(j) ==
    /\ j.t = "object"
    /\ \A key \in {"computed", "expected", "matches"} : HasField(j, key)
    /\ Is_String(Field(j, "computed"))
    /\ Is_String(Field(j, "expected"))
    /\ Is_Bool(Field(j, "matches"))

De_RootValidation(j) ==
    [computed |-> De_String(Field(j, "computed")),
     expected |-> De_String(Field(j, "expected")),
     matches |-> De_Bool(Field(j, "matches"))]

\* SnapProfileReportV1, lines 7-16
Ser_Report(x) ==
    JObject(<<Member("schema_version", Ser_UInt(x.schema_version)),
              Member("tool", Ser_ToolInfo(x.tool)),
              Member("dataset", Ser_DatasetInfo(x.dataset)),
              Member("config", Ser_RunConfig(x.config)),
              Member("runs", JArray([k \in 1..Len(x.runs) |-> Ser_RunEntry(x.runs[k])])),
              Member("summary", Ser_PhaseSummary(x.summary)),
              Member("root_validation", Ser_RootValidation(x.root_validation))>>)

Is_Report(j) ==
    /\ j.t = "object"
    /\ \A key \in {"schema_version", "tool", "dataset", "config", "runs", "summary", "root_validation"} : HasField(j, key)
    /\ Is_UInt(Field(j, "schema_version"))
    /\ Is_ToolInfo(Field(j, "tool"))
    /\ Is_DatasetInfo(Field(j, "dataset"))
    /\ Is_RunConfig(Field(j, "config"))
    /\ Field(j, "runs").t = "array"
    /\ \A k \in 1..Len(Field(j, "runs").v) : Is_RunEntry(Field(j, "runs").v[k])
    /\ Is_PhaseSummary(Field(j, "summary"))
    /\ Is_RootValidation(Field(j, "root_validation"))

De_Report(j) ==
    [schema_version |-> De_UInt(Field(j, "schema_version")),
     tool |-> De_ToolInfo(Field(j, "tool")),
     dataset |-> De_DatasetInfo(Field(j, "dataset")),
     config |-> De_RunConfig(Field(j, "config")),
     runs |-> [k \in 1..Len(Field(j, "runs").v) |-> De_RunEntry(Field(j, "runs").v[k])],
     summary |-> De_PhaseSummary(Field(j, "summary")),
     root_validation |-> De_RootValidation(Field(j, "root_validation"))]

\* tests::make_report's closure `phase` for fractional values
MakePhaseOf(median, p95) ==
    [median_secs |-> median, mean_secs |-> median, stddev_secs |-> Sqrt(RatZero),
     p95_secs |-> p95, p99_secs |-> p95,
     min_secs |-> RatMul(median, Rat(9, 10)),
     max_secs |-> RatMul(p95, Rat(11, 10))]

\* sample run lists: none, a warmup, a warmup and a measured pass, two
\* measured passes
SampleRun(k, warm, accounts, storages, root) ==
    [index |-> k, is_warmup |-> warm, insert_accounts_secs |-> accounts,
     insert_storages_secs |-> storages, total_secs |-> RatAdd(accounts, storages),
     state_root |-> root]

SampleRuns ==
    {<<>>,
     <<SampleRun(0, TRUE, Rat(3, 2), Rat(1, 4), <<"0x1234">>)>>,
     <<SampleRun(0, TRUE, Rat(3, 2), Rat(1, 4), <<"0x1234">>),
       SampleRun(1, FALSE, RatOfInt(12), Rat(1, 8), <<"0x1234">>)>>,
     <<SampleRun(0, FALSE, Rat(1, 10), RatZero, <<"0x1234">>),
       SampleRun(1, FALSE, Rat(201, 100), RatOfInt(3), <<"0xabcd">>)>>}

\* sample dataset paths: plain, and with a quote, a backslash and a newline
SamplePaths == {<<"/tmp/test">>, <<"/data/", "\"", "a", "\\", "n", "\n", "b">>}

\* sample (median, p95) of the total phase
SampleTotals == {<<RatZero, RatZero>>, <<RatOfInt(100), RatOfInt(110)>>, <<Rat(5, 4), Rat(7, 2)>>}

\* tests::make_report, with the fields it fixes made variable
SampleReports ==
    {[schema_version |-> 1,
      tool |-> [name |-> <<"ethrex-replay">>, version |-> <<"0.1.0">>,
                git_sha |-> <<"abc123">>],
      dataset |-> [path |-> path, manifest_sha256 |-> <<"sha_aaa">>,
                   chain_id |-> 1, pivot_block |-> 100],
      config |-> [backend |-> backend, repeat |-> 5, warmup |-> Len(runs)],
      runs |-> runs,
      summary |-> [insert_accounts |-> MakePhaseOf(RatMul(total[1], Rat(1, 10)),
                                                   RatMul(total[2], Rat(1, 10))),
                   insert_storages |-> MakePhaseOf(RatMul(total[1], Rat(9, 10)),
                                                   RatMul(total[2], Rat(9, 10))),
                   total |-> MakePhaseOf(total[1], total[2])],
      root_validation |-> [computed |-> <<"0x1234">>, expected |-> <<"0x1234">>,
                           matches |-> matches]] :
        path \in SamplePaths, backend \in {<<"rocksdb">>, <<"inmemory">>},
        runs \in SampleRuns, total \in SampleTotals, matches \in BOOLEAN}

RoundTripInit ==
    /\ OutInit /\ ProfileIdle /\ CompareIdle /\ VerifyIdle
    /\ l_durations = <<>> /\ phase_stats = None /\ run_stats = None
    /\ l_pc = "write"
    /\ rt_report \in SampleReports
    /\ rt_file = None
    /\ rt_loaded = None

\* write_to_file, lines 144-148
WriteToFile ==
    /\ l_pc = "write"
    /\ rt_file' = Some(Ser_Report(rt_report))
    /\ l_pc' = "load"
    /\ UNCHANGED <<l_durations, phase_stats, run_stats, rt_report, rt_loaded>>
    /\ UNCHANGED <<out_vars, profile_vars, compare_vars, verify_vars>>

\* line 147: fs::write fails
WriteToFileFails ==
    /\ l_pc = "write"
    /\ result' = "Err:Io"
    /\ l_pc' = "done"
    /\ UNCHANGED <<l_durations, phase_stats, run_stats, rt_report, rt_file, rt_loaded>>
    /\ UNCHANGED <<stdout, json_file, profile_vars, compare_vars, verify_vars>>

\* load_from_file, lines 150-154
LoadFromFile ==
    /\ l_pc = "load"
    /\ IF Is_Report(Unwrap(rt_file))
       THEN rt_loaded' = Some(De_Report(Unwrap(rt_file))) /\ result' = "Ok"
       ELSE rt_loaded' = None /\ result' = "Err:Parse"
    /\ l_pc' = "done"
    /\ UNCHANGED <<l_durations, phase_stats, run_stats, rt_report, rt_file>>
    /\ UNCHANGED <<stdout, json_file, profile_vars, compare_vars, verify_vars>>

\* line 151: fs::read_to_string fails
LoadFromFileFails ==
    /\ l_pc = "load"
    /\ result' = "Err:Io"
    /\ l_pc' = "done"
    /\ UNCHANGED <<l_durations, phase_stats, run_stats, rt_report, rt_file, rt_loaded>>
    /\ UNCHANGED <<stdout, json_file, profile_vars, compare_vars, verify_vars>>

RoundTripNext ==
    \/ WriteToFile
    \/ WriteToFileFails
    \/ LoadFromFile
    \/ LoadFromFileFails

RoundTripSpec == RoundTripInit /\ [][RoundTripNext]_vars

----------------------------------------------------------------------------
(* Properties of run_profile, checked under ProfileSpec.                   *)

\* the reports the session has emitted so far (file and stdout)
EmittedReports ==
    (IF json_file = None THEN {} ELSE {Unwrap(json_file)})
        \cup {stdout[k].doc : k \in 1..Len(stdout)}

\* C1: when a pass returns a root different from the root of the pass before
\* it, the session is over with the non-deterministic-result error: that pass
\* is the last one executed, the root was never validated against the
\* manifest, and nothing was written or printed, whatever the output options.
C1_NonDeterministicRootAborts ==
    \A k \in 2..Len(executed) :
        executed[k] # executed[k - 1] =>
            /\ k = Len(executed)
            /\ pc = "done"
            /\ result = "Err:NonDeterministic"
            /\ root_validation = None
            /\ json_file = None
            /\ stdout = <<>>

\* a warmup pass returned a different root than the pass before it, with both
\* JSON outputs requested
C1_Witness ==
    /\ Len(executed) = 2
    /\ executed[1] # executed[2]
    /\ opts.warmup = 2
    /\ opts.json_out /\ opts.json_stdout
    /\ result = "Err:NonDeterministic"

\* the report the session emits when the root does not match
MismatchReportEmitted ==
    /\ opts.json_out =>
        /\ json_file # None
        /\ Unwrap(json_file).root_validation.matches = FALSE
        /\ Unwrap(json_file).runs = run_entries
    /\ opts.json_stdout =>
        /\ Len(stdout) = 1
        /\ stdout[1].kind = "json"
        /\ stdout[1].doc.root_validation.matches = FALSE
        /\ stdout[1].doc.runs = run_entries

AllPassesCompleted ==
    /\ Len(run_entries) = total_runs
    /\ root_validation # None

LastRootMismatch ==
    /\ last_state_root # None
    /\ expected_root # None
    /\ Unwrap(last_state_root) # Unwrap(expected_root)

DurationOfSecs(x) == x[1]

\* the entries of `runs` with is_warmup = false, in order
MeasuredRuns(runs) == SelectSeq(runs, LAMBDA e : ~e.is_warmup)

WarmupRuns(runs) == SelectSeq(runs, LAMBDA e : e.is_warmup)

SummaryFromMeasuredRuns(rep) ==
    LET m == MeasuredRuns(rep.runs)
    IN  /\ rep.summary.insert_accounts =
            from_durations([k \in 1..Len(m) |-> DurationOfSecs(m[k].insert_accounts_secs)])
        /\ rep.summary.insert_storages =
            from_durations([k \in 1..Len(m) |-> DurationOfSecs(m[k].insert_storages_secs)])
        /\ rep.summary.total =
            from_durations([k \in 1..Len(m) |-> DurationOfSecs(m[k].total_secs)])
        /\ Len(m) = rep.config.repeat
        /\ Len(WarmupRuns(rep.runs)) = rep.config.warmup

\* C3: in every emitted report the three PhaseStats of the summary are the
\* statistics of the durations of the runs with is_warmup = false, one sample
\* per measured pass (repeat samples), and the runs list still holds every
\* warmup pass.
C3_SummaryExcludesWarmup ==
    \A rep \in EmittedReports : SummaryFromMeasuredRuns(rep)

\* a report of a session with one warmup and one measured pass whose total
\* durations differ
C3_Witness ==
    \E rep \in EmittedReports :
        /\ rep.config.warmup = 1 /\ rep.config.repeat = 1
        /\ Len(rep.runs) = 2
        /\ rep.runs[1].total_secs # rep.runs[2].total_secs

\* C4: a session that is not aborted has made exactly warmup + repeat calls of
\* the engine, one at a time; its run log holds one entry per pass, in
\* order, with index 0, 1, ..., and is_warmup exactly on the first `warmup`.
C4_PassesSequentialAndLogged ==
    /\ pc \in {"loop", "run"} =>
        /\ Len(run_entries) = i
        /\ Len(executed) = i
    /\ AllPassesCompleted /\ pc # "loop" =>
        /\ Len(executed) = opts.warmup + opts.repeat
        /\ Len(run_entries) = opts.warmup + opts.repeat
        /\ \A k \in 1..Len(run_entries) :
            /\ run_entries[k].index = k - 1
            /\ run_entries[k].is_warmup = (k <= opts.warmup)

\* a session of one warmup and one measured pass returned
C4_Witness ==
    /\ pc = "done"
    /\ result \in {"Ok", "Err:RootMismatch"}
    /\ opts.warmup = 1 /\ opts.repeat = 1
    /\ Len(run_entries) = 2

\* every field of the PhaseStats is zero
AllZero(st) ==
    /\ st.median_secs = RatZero /\ st.mean_secs = RatZero
    /\ st.stddev_secs = Sqrt(RatZero)
    /\ st.p95_secs = RatZero /\ st.p99_secs = RatZero
    /\ st.min_secs = RatZero /\ st.max_secs = RatZero

\* the duration lists the session has collected so far
CollectedDurations ==
    {insert_accounts_durations, insert_storages_durations, total_durations}

\* C17: from_durations of an empty sequence has every field (median, mean,
\* stddev, p95, p99, min, max) equal to 0, and of a sequence of fewer than two
\* samples a standard deviation of exactly 0; a session with repeat = 0 emits
\* a report whose three phase summaries are all-zero, and one with repeat = 1
\* a report whose three standard deviations are 0.
C17_DegenerateStats ==
    /\ \A d \in CollectedDurations :
           /\ Len(d) = 0 => AllZero(from_durations(d))
           /\ Len(d) < 2 => from_durations(d).stddev_secs = Sqrt(RatZero)
    /\ \A rep \in EmittedReports :
           /\ rep.config.repeat = 0 =>
                  /\ AllZero(rep.summary.insert_accounts)
                  /\ AllZero(rep.summary.insert_storages)
                  /\ AllZero(rep.summary.total)
           /\ rep.config.repeat < 2 =>
                  /\ rep.summary.insert_accounts.stddev_secs = Sqrt(RatZero)
                  /\ rep.summary.insert_storages.stddev_secs = Sqrt(RatZero)
                  /\ rep.summary.total.stddev_secs = Sqrt(RatZero)

\* a finished session with repeat = 0 and one warmup pass that emitted its
\* report: the pass is listed, the summaries are all-zero
C17_Witness ==
    /\ pc = "done"
    /\ result = "Ok"
    /\ \E rep \in EmittedReports :
           /\ rep.config.repeat = 0
           /\ Len(rep.runs) = 1
           /\ AllZero(rep.summary.total)

\* a finished session with one measured pass that emitted its report
C17_WitnessOneSample ==
    /\ pc = "done"
    /\ \E rep \in EmittedReports :
           /\ rep.config.repeat = 1
           /\ rep.summary.total.mean_secs # RatZero
           /\ rep.summary.total.stddev_secs = Sqrt(RatZero)

\* C28: in every report a session emits, all entries of the runs list carry
\* the same state_root string; when the list is non-empty that string is
\* root_validation.computed; root_validation.expected is the manifest's
\* expected root and matches is true exactly when the computed root equals it.
C28_ReportRootsConsistent ==
    \A rep \in EmittedReports :
        /\ \A a, b \in 1..Len(rep.runs) : rep.runs[a].state_root = rep.runs[b].state_root
        /\ rep.runs # <<>> => rep.runs[1].state_root = rep.root_validation.computed
        /\ rep.root_validation.expected = RootStr(Unwrap(expected_root))
        /\ rep.root_validation.matches <=>
               (rep.root_validation.computed = rep.root_validation.expected)

\* a report of two passes whose common root is not the expected one
C28_Witness ==
    \E rep \in EmittedReports :
        /\ Len(rep.runs) = 2
        /\ ~rep.root_validation.matches
        /\ rep.runs[2].state_root = rep.root_validation.computed
        /\ rep.root_validation.computed # rep.root_validation.expected

\* a report of two passes whose common root is the expected one
C28_WitnessMatch ==
    \E rep \in EmittedReports :
        /\ Len(rep.runs) = 2
        /\ rep.root_validation.matches
        /\ rep.runs[1].state_root = rep.root_validation.expected

\* C29: for all warmup >= 0 and repeat >= 0, sessions with zero passes
\* included, whenever run_profile returns success the root validation of the
\* session has matches = true, and every emitted report with matches = false
\* belongs to a session that ends with a failure.
C29_SuccessImpliesRootMatches ==
    (pc = "done" /\ result = "Ok") =>
        /\ root_validation # None
        /\ Unwrap(root_validation).matches
        /\ \A rep \in EmittedReports : rep.root_validation.matches

----------------------------------------------------------------------------
(* Properties of run_compare, checked under CompareSpec.                   *)

BothLoaded == baseline # None /\ candidate # None

\* the two loaded reports differ in schema version, manifest hash or backend
ReportsDiffer ==
    LET b == Unwrap(baseline)
        c == Unwrap(candidate)
    IN  \/ b.schema_version # c.schema_version
        \/ b.dataset.manifest_sha256 # c.dataset.manifest_sha256
        \/ b.config.backend # c.config.backend

MismatchErrors == {"Err:SchemaMismatch", "Err:DatasetMismatch", "Err:BackendMismatch"}

\* C5: when the baseline and candidate reports differ in schema version,
\* manifest_sha256 or backend, compare ends with a mismatch error and, at
\* every moment, no delta has been computed, no table printed and no
\* comparison report written or printed, whatever the threshold and the
\* output options.
C5_IncompatibleReportsFail ==
    BothLoaded /\ ReportsDiffer =>
        /\ c_pc \in {"check", "done"}
        /\ c_pc = "done" => result \in MismatchErrors
        /\ comparison = None
        /\ stdout = <<>>
        /\ json_file = None

\* compare returned for two reports that differ only in the backend, with a
\* threshold, fail_on_regression and both JSON outputs requested
C5_Witness ==
    /\ BothLoaded
    /\ c_pc = "done"
    /\ Unwrap(baseline).schema_version = Unwrap(candidate).schema_version
    /\ Unwrap(baseline).dataset.manifest_sha256 = Unwrap(candidate).dataset.manifest_sha256
    /\ Unwrap(baseline).config.backend # Unwrap(candidate).config.backend
    /\ c_opts.json_out /\ c_opts.json_stdout
    /\ c_opts.regression_threshold_pct # None
    /\ result = "Err:BackendMismatch"

\* (candidate - baseline) / baseline * 100, and 0 when baseline is 0
ExpectedDelta(b, c) ==
    IF b[1] = 0 THEN <<0, 1>>
    ELSE Rat((c[1] * b[2] - b[1] * c[2]) * 100 * b[2], b[1] * b[2] * c[2])

DeltasAsSpecified(d, b, c) ==
    /\ d.median_delta_pct = ExpectedDelta(b.median_secs, c.median_secs)
    /\ d.p95_delta_pct = ExpectedDelta(b.p95_secs, c.p95_secs)

\* C6: for each phase and each metric the stored delta is
\* (candidate - baseline) / baseline * 100, and exactly 0 when baseline is 0;
\* baseline 100 with candidate 120 gives +20 and with candidate 105 gives +5.
C6_DeltaFormula ==
    comparison # None =>
        LET d == Unwrap(comparison).deltas
            b == Unwrap(baseline).summary
            c == Unwrap(candidate).summary
        IN  /\ DeltasAsSpecified(d.total, b.total, c.total)
            /\ DeltasAsSpecified(d.insert_accounts, b.insert_accounts, c.insert_accounts)
            /\ DeltasAsSpecified(d.insert_storages, b.insert_storages, c.insert_storages)
            /\ b.total.median_secs = <<100, 1>> /\ c.total.median_secs = <<120, 1>>
                => d.total.median_delta_pct = <<20, 1>>
            /\ b.total.median_secs = <<100, 1>> /\ c.total.median_secs = <<105, 1>>
                => d.total.median_delta_pct = <<5, 1>>
            /\ b.total.median_secs = <<0, 1>> => d.total.median_delta_pct = <<0, 1>>
            /\ b.total.p95_secs = <<0, 1>> => d.total.p95_delta_pct = <<0, 1>>

\* a comparison whose total baseline median is 0 but whose baseline p95 is
\* not, and whose insert_accounts p95 delta differs from its median delta
C6_Witness ==
    /\ comparison # None
    /\ Unwrap(baseline).summary.total.median_secs = <<0, 1>>
    /\ Unwrap(baseline).summary.total.p95_secs = <<110, 1>>
    /\ Unwrap(candidate).summary.total.p95_secs = <<132, 1>>
    /\ Unwrap(comparison).deltas.total.p95_delta_pct = <<20, 1>>
    /\ Unwrap(comparison).deltas.insert_accounts.median_delta_pct = <<200, 1>>
    /\ Unwrap(comparison).deltas.insert_accounts.p95_delta_pct = <<100, 11>>

\* C7: regression_detected is true exactly when a threshold was supplied and
\* the total median delta is strictly greater than it; the p95 deltas and the
\* deltas of the other two phases play no part.
C7_RegressionFlag ==
    comparison # None =>
        LET rep == Unwrap(comparison)
            t == c_opts.regression_threshold_pct
            total == ExpectedDelta(Unwrap(baseline).summary.total.median_secs,
                                   Unwrap(candidate).summary.total.median_secs)
        IN  /\ rep.regression_detected = (t # None /\ RatLess(Unwrap(t), total))
            /\ t = None => ~rep.regression_detected
            /\ t # None /\ Unwrap(t) = total => ~rep.regression_detected

\* the total median delta equals the threshold (no regression) although the
\* insert_accounts median delta exceeds it
C7_Witness ==
    /\ comparison # None
    /\ c_opts.regression_threshold_pct = Some(<<5, 1>>)
    /\ Unwrap(comparison).deltas.total.median_delta_pct = <<5, 1>>
    /\ RatLess(<<5, 1>>, Unwrap(comparison).deltas.insert_accounts.median_delta_pct)
    /\ ~Unwrap(comparison).regression_detected

\* the table and the requested JSON documents of a comparison are out
ComparisonEmitted ==
    /\ Len(stdout) >= 1
    /\ stdout[1] = Printed("table", Table(Unwrap(comparison)))
    /\ c_opts.json_out => json_file = comparison
    /\ c_opts.json_stdout =>
        /\ Len(stdout) = 2
        /\ stdout[2] = Printed("json", Unwrap(comparison))

C8_WitnessNoFail ==
    /\ result = "Ok"
    /\ comparison # None
    /\ Unwrap(comparison).regression_detected
    /\ ~c_opts.fail_on_regression

\* the schema version this tool writes and recognises
RecognisedSchemaVersion == 1

\* C9: compare fails for every pair of reports of which at least one carries a
\* schema version other than the recognised one, also when both carry the
\* same unrecognised version.
C9_UnrecognisedSchemaRejected ==
    /\ BothLoaded
    /\ c_pc = "done"
    /\ \/ Unwrap(baseline).schema_version # RecognisedSchemaVersion
       \/ Unwrap(candidate).schema_version # RecognisedSchemaVersion
    => result # "Ok"

----------------------------------------------------------------------------
(* Properties of run_verify / verify_dataset, checked under VerifySpec.    *)

\* the names in the directory `dir_name` of the dataset on disk that start
\* with the chunk prefix
ChunkNames(dir_name, prefix) ==
    {f.name : f \in {g \in DirOf(dataset, dir_name).files : StartsWith(g.name, prefix)}}

\* the integer the trailing segment of a name denotes, -1 when it denotes none
TrailingIndex(name) == ParseUsize(LastSegment(name))

\* the directory has a chunk, every chunk name carries an index, the indices
\* are pairwise distinct and are exactly 0..n-1
ChunksWellFormed(dir_name, prefix, n) ==
    LET names == ChunkNames(dir_name, prefix)
    IN  /\ names # {}
        /\ \A a \in names : TrailingIndex(a) >= 0
        /\ \A a, b \in names : a # b => TrailingIndex(a) # TrailingIndex(b)
        /\ {TrailingIndex(a) : a \in names} = 0..(n - 1)

C10_WitnessDuplicate ==
    /\ v_pc = "done"
    /\ result = "Err:Invalid"
    /\ ~v_opts.strict
    /\ \E k \in 1..Len(errors) : errors[k].message.text = "Duplicate chunk indices found"
    /\ \A k \in 1..Len(errors) : errors[k].message.text = "Duplicate chunk indices found"

\* the result run_verify built, and the result verify_dataset returns for the
\* same dataset, mode and directory listing
VerifyResults ==
    IF verify_result = None THEN {}
    ELSE {Unwrap(verify_result),
          verify_dataset(dataset, v_opts.strict, acc_chunks, storage_chunks)}

\* the positions of the errors of `r` whose file is of one of the kinds
ErrorsOfKind(r, kinds) == {k \in 1..Len(r.errors) : r.errors[k].file.kind \in kinds}

\* the number of entries of a directory whose name starts with the prefix
ChunkCount(dir_name, prefix) == Cardinality(MatchingFiles(DirOf(dataset, dir_name), prefix))

\* C11: when the manifest cannot be loaded, the result is invalid and holds
\* exactly one error for "manifest.json", the first one; the chunk counts are
\* those of the directories account_state_snapshots and
\* account_storages_snapshots, no error names another directory, and the
\* remaining errors and the statistics are those of the directory, index and
\* (strict) decode checks of the same dataset under a loadable version-1
\* manifest with the default directory names.
C11_ManifestLoadFailure ==
    \A r \in VerifyResults :
        dataset.manifest = None =>
            LET ref == verify_dataset([dataset EXCEPT !.manifest = Manifest(1, DefaultPaths)],
                                      v_opts.strict, acc_chunks, storage_chunks)
            IN  /\ ~r.valid
                /\ ErrorsOfKind(r, {"manifest"}) = {1}
                /\ r.errors[1].message.text = "Failed to load manifest"
                /\ r.stats.account_chunks = ChunkCount("account_state_snapshots", AccPrefix)
                /\ r.stats.storage_chunks = ChunkCount("account_storages_snapshots", StoragePrefix)
                /\ \A k \in 1..Len(r.errors) :
                       r.errors[k].file.dir \in
                           {"", "account_state_snapshots", "account_storages_snapshots"}
                /\ Tail(r.errors) = ref.errors
                /\ r.stats = ref.stats

\* a strict verification without manifest of a dataset whose default
\* directories are missing and whose alternative directories hold chunks: the
\* manifest error and the two directory errors
C11_Witness ==
    /\ v_pc = "done"
    /\ dataset.manifest = None
    /\ v_opts.strict
    /\ DirOf(dataset, AltAccDir) = Dir({A0, A1})
    /\ Len(errors) = 3
    /\ Unwrap(verify_result).stats.account_chunks = 0

\* C12: when the manifest loads with a version other than 1, the result is
\* invalid and holds exactly one error for "manifest.json", the version error,
\* first; the chunk counts are those of the directories the manifest names, no
\* error names another directory, and the remaining errors and the statistics
\* are those of the same dataset with manifest version 1.
C12_UnsupportedVersionContinues ==
    \A r \in VerifyResults :
        (dataset.manifest # None /\ Unwrap(dataset.manifest).version # 1) =>
            LET paths == Unwrap(dataset.manifest).paths
                ref == verify_dataset([dataset EXCEPT !.manifest = Manifest(1, paths)],
                                      v_opts.strict, acc_chunks, storage_chunks)
            IN  /\ ~r.valid
                /\ ErrorsOfKind(r, {"manifest"}) = {1}
                /\ r.errors[1].message.text = "Unsupported manifest version"
                /\ r.stats.account_chunks =
                       ChunkCount(paths.account_state_snapshots_dir, AccPrefix)
                /\ r.stats.storage_chunks =
                       ChunkCount(paths.account_storages_snapshots_dir, StoragePrefix)
                /\ \A k \in 1..Len(r.errors) :
                       r.errors[k].file.dir \in
                           {"", paths.account_state_snapshots_dir,
                            paths.account_storages_snapshots_dir}
                /\ Tail(r.errors) = ref.errors
                /\ r.stats = ref.stats

\* a verification under a version-2 manifest naming the alternative
\* directories, which hold two well-formed chunks each while the default
\* directories are missing: the version error is the only error
C12_Witness ==
    /\ v_pc = "done"
    /\ dataset.manifest = Manifest(2, AltPaths)
    /\ DirOf(dataset, DefaultAccDir) = Missing
    /\ Len(errors) = 1
    /\ Unwrap(verify_result).stats.account_chunks = 2
    /\ Unwrap(verify_result).stats.storage_chunks = 2

\* the directory names the verification of the dataset works with
UsedAccDir ==
    IF dataset.manifest = None THEN "account_state_snapshots"
    ELSE Unwrap(dataset.manifest).paths.account_state_snapshots_dir

UsedStorageDir ==
    IF dataset.manifest = None THEN "account_storages_snapshots"
    ELSE Unwrap(dataset.manifest).paths.account_storages_snapshots_dir

\* the directory does not exist, or exists and holds no file with the prefix
MissingOrChunkless(dir_name, prefix) ==
    \/ DirOf(dataset, dir_name).state = "missing"
    \/ /\ DirOf(dataset, dir_name).state = "listable"
       /\ MatchingFiles(DirOf(dataset, dir_name), prefix) = {}

\* the positions of the errors of `r` whose file lies in or is the directory
ErrorsNaming(r, dir_name) == {k \in 1..Len(r.errors) : r.errors[k].file.dir = dir_name}

\* the directory was checked: its count is the number of its chunk files, and
\* an error is recorded when it is missing, unreadable, chunkless or its chunk
\* indices are not pairwise distinct and exactly 0..n-1
DirChecked(r, dir_name, prefix, count) ==
    /\ count = ChunkCount(dir_name, prefix)
    /\ ~ChunksWellFormed(dir_name, prefix, count) =>
           \E k \in 1..Len(r.errors) :
               \/ r.errors[k].file.dir = dir_name
               \/ /\ r.errors[k].file.kind = "chunk_name"
                  /\ StartsWith(r.errors[k].file.name, prefix)

\* C13: a snapshot directory that does not exist, or exists without any file
\* whose name starts with its chunk prefix, yields exactly one error naming
\* that directory (a directory error), an invalid result and a chunk count of
\* 0 for it; this holds for the account and the storage directory each,
\* whatever the state of the other, and the other directory is still checked.
C13_MissingOrEmptyDirectory ==
    \A r \in VerifyResults :
        /\ MissingOrChunkless(UsedAccDir, AccPrefix) =>
               /\ Cardinality(ErrorsNaming(r, UsedAccDir)) = 1
               /\ \A k \in ErrorsNaming(r, UsedAccDir) :
                      /\ r.errors[k].file.kind = "dir_path"
                      /\ r.errors[k].message.text =
                             IF DirOf(dataset, UsedAccDir).state = "missing"
                             THEN "Directory does not exist"
                             ELSE "Directory is empty (no matching chunk files)"
               /\ ~r.valid
               /\ r.stats.account_chunks = 0
               /\ DirChecked(r, UsedStorageDir, StoragePrefix, r.stats.storage_chunks)
        /\ MissingOrChunkless(UsedStorageDir, StoragePrefix) =>
               /\ Cardinality(ErrorsNaming(r, UsedStorageDir)) = 1
               /\ \A k \in ErrorsNaming(r, UsedStorageDir) :
                      /\ r.errors[k].file.kind = "dir_path"
                      /\ r.errors[k].message.text =
                             IF DirOf(dataset, UsedStorageDir).state = "missing"
                             THEN "Directory does not exist"
                             ELSE "Directory is empty (no matching chunk files)"
               /\ ~r.valid
               /\ r.stats.storage_chunks = 0
               /\ DirChecked(r, UsedAccDir, AccPrefix, r.stats.account_chunks)

\* the account directory holds only a foreign file and the storage directory
\* has a duplicate index: one emptiness error for the account directory, and
\* the storage directory's duplicate is reported as well
C13_Witness ==
    /\ v_pc = "done"
    /\ dataset.manifest = Manifest(1, DefaultPaths)
    /\ DirOf(dataset, DefaultAccDir).state = "listable"
    /\ DirOf(dataset, DefaultAccDir).files # {}
    /\ MissingOrChunkless(DefaultAccDir, AccPrefix)
    /\ DirOf(dataset, DefaultStorageDir) = Dir({S0, SPlus0})
    /\ Len(errors) = 2
    /\ errors[1].message.text = "Directory is empty (no matching chunk files)"
    /\ errors[2].message.text = "Duplicate chunk indices found"

\* the number of accounts in the account chunk files of a set that decode
RECURSIVE AccountsIn(_)
AccountsIn(files) ==
    IF files = {} THEN 0
    ELSE LET f == CHOOSE x \in files : TRUE
         IN  (IF f.content.kind = "accounts" THEN f.content.items ELSE 0)
             + AccountsIn(files \ {f})

\* the number of slots, over all entries, in the storage chunk files of a set
\* that decode
RECURSIVE SlotsIn(_)
SlotsIn(files) ==
    IF files = {} THEN 0
    ELSE LET f == CHOOSE x \in files : TRUE
         IN  (IF f.content.kind = "storages" THEN SumInts(f.content.slots) ELSE 0)
             + SlotsIn(files \ {f})

\* the positions of the errors of `r` that carry the path of the file
ErrorsForChunk(r, dir_name, f) ==
    {k \in 1..Len(r.errors) :
        /\ r.errors[k].file.kind = "chunk_path"
        /\ r.errors[k].file.dir = dir_name
        /\ r.errors[k].file.name = f.name}

\* every chunk file of the directory was read and decoded: none for a chunk
\* of the expected kind, exactly one error for any other
ChunksDecoded(r, dir_name, prefix, kind, decode_message) ==
    \A f \in MatchingFiles(DirOf(dataset, dir_name), prefix) :
        IF f.content.kind = kind THEN ErrorsForChunk(r, dir_name, f) = {}
        ELSE /\ Cardinality(ErrorsForChunk(r, dir_name, f)) = 1
             /\ \A k \in ErrorsForChunk(r, dir_name, f) :
                    r.errors[k].message.text =
                        IF f.content.kind = "unreadable" THEN "Failed to read file"
                        ELSE decode_message

\* C14: in strict mode every chunk file of both directories is read and
\* decoded: a chunk that cannot be read or decoded has exactly one error with
\* its path, a chunk that decodes has none, whatever happened to the other
\* chunks; total_accounts is the sum of the account counts and
\* total_storage_slots the sum of the slot-list lengths of exactly the chunks
\* that decoded.
C14_StrictDecodesEveryChunk ==
    \A r \in VerifyResults :
        r.strict =>
            /\ ChunksDecoded(r, UsedAccDir, AccPrefix, "accounts",
                             "Failed to decode account RLP")
            /\ ChunksDecoded(r, UsedStorageDir, StoragePrefix, "storages",
                             "Failed to decode storage RLP")
            /\ r.stats.total_accounts =
                   AccountsIn(MatchingFiles(DirOf(dataset, UsedAccDir), AccPrefix))
            /\ r.stats.total_storage_slots =
                   SlotsIn(MatchingFiles(DirOf(dataset, UsedStorageDir), StoragePrefix))

\* a strict verification of an account directory with one decodable chunk
\* of 3 accounts and one unreadable chunk, and a storage directory of two
\* chunks with 2 + 2 slots: the read error is recorded and the totals count
\* the chunks that decoded
C14_Witness ==
    /\ v_pc = "done"
    /\ v_opts.strict
    /\ DirOf(dataset, UsedAccDir) = Dir({A0, File(AccName(<<".", "1">>), NoRead)})
    /\ DirOf(dataset, UsedStorageDir) = Dir({S0, S1})
    /\ Unwrap(verify_result).stats.total_accounts = 3
    /\ Unwrap(verify_result).stats.total_storage_slots = 4
    /\ \E k \in 1..Len(errors) : errors[k].message.text = "Failed to read file"

\* the strict verification of one account chunk of 3 accounts and one
\* storage chunk of 2 slots is valid
C14_WitnessFixture ==
    /\ v_pc = "done"
    /\ v_opts.strict
    /\ result = "Ok"
    /\ Unwrap(verify_result).stats =
           [account_chunks |-> 1, storage_chunks |-> 1,
            total_accounts |-> 3, total_storage_slots |-> 2]

\* the file with its bytes replaced by bytes that are no RLP
Scrubbed(f) == File(f.name, GarbageBytes)

\* the dataset with the bytes of every file replaced
ScrubbedDataset(ds) ==
    [ds EXCEPT !.dirs = [n \in DOMAIN ds.dirs |->
        [state |-> ds.dirs[n].state, files |-> {Scrubbed(f) : f \in ds.dirs[n].files}]]]

ScrubbedList(chunks) == [k \in 1..Len(chunks) |-> Scrubbed(chunks[k])]

\* the directory holds a chunk file of garbage bytes
HasGarbageChunk(dir_name, prefix) ==
    \E f \in MatchingFiles(DirOf(dataset, dir_name), prefix) : f.content.kind = "garbage"

\* C15: in base mode total_accounts and total_storage_slots are 0, no error
\* carries a chunk's path (no read or decode error), and the whole result is
\* the one obtained for the same dataset with the bytes of every file replaced
\* by garbage, so validity and errors do not depend on chunk contents; in
\* strict mode a chunk of garbage bytes makes the result invalid with a decode
\* error.
C15_BaseModeSkipsDecode ==
    \A r \in VerifyResults :
        /\ ~r.strict =>
               /\ r.stats.total_accounts = 0
               /\ r.stats.total_storage_slots = 0
               /\ ErrorsOfKind(r, {"chunk_path"}) = {}
               /\ r = verify_dataset(ScrubbedDataset(dataset), FALSE,
                                     ScrubbedList(acc_chunks), ScrubbedList(storage_chunks))
        /\ (r.strict /\ (\/ HasGarbageChunk(UsedAccDir, AccPrefix)
                         \/ HasGarbageChunk(UsedStorageDir, StoragePrefix))) =>
               /\ ~r.valid
               /\ \E k \in 1..Len(r.errors) :
                      r.errors[k].message.text \in
                          {"Failed to decode account RLP", "Failed to decode storage RLP"}

\* a base-mode verification that returned Ok for a dataset whose only
\* account chunk holds garbage bytes
C15_Witness ==
    /\ v_pc = "done"
    /\ ~v_opts.strict
    /\ result = "Ok"
    /\ DirOf(dataset, UsedAccDir) = Dir({A0Bad})
    /\ Unwrap(verify_result).valid
    /\ Unwrap(verify_result).stats.total_accounts = 0

\* the strict verification of the same kind of dataset fails with the decode
\* error as its only error
C15_WitnessStrict ==
    /\ v_pc = "done"
    /\ v_opts.strict
    /\ result = "Err:Invalid"
    /\ DirOf(dataset, UsedAccDir) = Dir({A0Bad})
    /\ Len(errors) = 1
    /\ errors[1].message.text = "Failed to decode account RLP"

\* the errors check_chunk_indices adds for the listed chunks of a directory
IndexErrors(chunks, dir_name) == check_chunk_indices(chunks, dir_name, <<>>)

\* the index checks of both directories have run and their errors are in the
\* errors list, accounts first
IndexChecksRecorded ==
    /\ v_pc \in {"decode", "emit", "ret", "done"}
    /\ LET added == IndexErrors(acc_chunks, acc_dir_name)
                        \o IndexErrors(storage_chunks, storage_dir_name)
       IN  \E a \in 0..Len(errors) : SubSeq(errors, a + 1, a + Len(added)) = added

\* the two directories' chunk lists with their names
CheckedDirs == {<<acc_chunks, acc_dir_name>>, <<storage_chunks, storage_dir_name>>}

\* the positions of the errors with the message text
ErrorsWithText(errs, text) == {k \in 1..Len(errs) : errs[k].message.text = text}

\* the parsed indices of the chunks, as a set
IndexSet(chunks) ==
    {TrailingIndex(chunks[k].name) : k \in 1..Len(chunks)} \ {-1}

\* two chunk files carry the same parsed index
HasRepeatedIndex(chunks) ==
    \E a, b \in 1..Len(chunks) :
        /\ a # b
        /\ TrailingIndex(chunks[a].name) >= 0
        /\ TrailingIndex(chunks[a].name) = TrailingIndex(chunks[b].name)

\* C21: check_chunk_indices records the "Duplicate chunk indices" error for a
\* directory exactly when at least two of its chunk files have the same parsed
\* index; a chunk whose trailing segment does not parse is reported on its own
\* as an invalid index and does not count as a duplicate.
C21_DuplicateExactlyWhenRepeated ==
    IndexChecksRecorded =>
        \A d \in CheckedDirs :
            LET errs == IndexErrors(d[1], d[2])
            IN  /\ (ErrorsWithText(errs, "Duplicate chunk indices found") # {})
                       <=> HasRepeatedIndex(d[1])
                /\ \A k \in 1..Len(d[1]) :
                       TrailingIndex(d[1][k].name) < 0 =>
                           \E e \in ErrorsWithText(errs, "Invalid chunk index in filename") :
                               errs[e].file.name = d[1][k].name

\* C22: check_chunk_indices records a "not contiguous" error for a directory
\* exactly when the set of its parsed indices is non-empty and differs from
\* {0, ..., k-1}, k the number of distinct parsed indices; the message lists
\* the distinct indices found in ascending order; a directory with no parsable
\* index gets no such error.
C22_NotContiguousExactlyWhenGap ==
    IndexChecksRecorded =>
        \A d \in CheckedDirs :
            LET errs == IndexErrors(d[1], d[2])
                gaps == ErrorsWithText(errs, "Chunk indices are not contiguous from 0")
                found == IndexSet(d[1])
            IN  /\ (gaps # {}) <=>
                       (found # {} /\ found # 0..(Cardinality(found) - 1))
                /\ Cardinality(gaps) <= 1
                /\ \A g \in gaps :
                       LET listed == errs[g].message.arg
                       IN  /\ errs[g].file.dir = d[2]
                           /\ Len(listed) = Cardinality(found)
                           /\ {listed[k] : k \in 1..Len(listed)} = found
                           /\ \A k \in 1..(Len(listed) - 1) : listed[k] < listed[k + 1]

\* the account chunks carry the indices 0 and 2 and the error lists 0, 2
C22_Witness ==
    /\ IndexChecksRecorded
    /\ IndexSet(acc_chunks) = {0, 2}
    /\ \E k \in 1..Len(errors) :
           /\ errors[k].message.text = "Chunk indices are not contiguous from 0"
           /\ errors[k].message.arg = <<0, 2>>
           /\ errors[k].file.dir = acc_dir_name

\* no account chunk carries a parsable index: no contiguity error at all
C22_WitnessNoIndex ==
    /\ IndexChecksRecorded
    /\ acc_chunks # <<>>
    /\ IndexSet(acc_chunks) = {}
    /\ IndexSet(storage_chunks) = {0}
    /\ ErrorsWithText(errors, "Chunk indices are not contiguous from 0") = {}

\* the result run_verify built is the one verify_dataset returns for the
\* same dataset, mode and directory listing
SameAsVerifyDataset ==
    verify_result # None =>
        Unwrap(verify_result) =
            verify_dataset(dataset, v_opts.strict, acc_chunks, storage_chunks)

\* the requested JSON outputs carry the result
JsonEmitted ==
    /\ v_opts.json_out => json_file = verify_result
    /\ v_opts.json_stdout =>
           \E k \in 1..Len(stdout) : stdout[k] = Printed("json", Unwrap(verify_result))

\* C27: run_verify and verify_dataset compute the same VerifyResult for every
\* dataset and strict flag; run_verify returns an error exactly when that
\* result's error list is non-empty (valid = false), and it has written and
\* printed the requested JSON result before returning that error.
C27_VerifyPathsAgree ==
    /\ SameAsVerifyDataset
    /\ v_pc = "done" =>
           /\ (result # "Ok") <=> (Unwrap(verify_result).errors # <<>>)
           /\ Unwrap(verify_result).valid <=> (Unwrap(verify_result).errors = <<>>)
           /\ result # "Ok" => JsonEmitted

\* C27, amended: the same, except that run_verify also returns an error, the
\* I/O error, when writing the JSON file fails, whatever the result; in every
\* other case it returns an error exactly when the error list is non-empty,
\* after the requested JSON has been written and printed.
C27_VerifyPathsAgreeUnlessWriteFails ==
    /\ SameAsVerifyDataset
    /\ v_pc = "done" =>
           /\ Unwrap(verify_result).valid <=> (Unwrap(verify_result).errors = <<>>)
           /\ result \in {"Ok", "Err:Invalid", "Err:Io"}
           /\ result = "Err:Io" => v_opts.json_out /\ json_file = None
           /\ result # "Err:Io" =>
                  /\ (result = "Err:Invalid") <=> (Unwrap(verify_result).errors # <<>>)
                  /\ JsonEmitted

\* run_verify returned the verification error for an invalid dataset after
\* writing and printing the invalid result
C27_Witness ==
    /\ v_pc = "done"
    /\ result = "Err:Invalid"
    /\ v_opts.json_out /\ v_opts.json_stdout
    /\ json_file = verify_result
    /\ ~Unwrap(verify_result).valid
    /\ stdout # <<>>

----------------------------------------------------------------------------
(* Properties of PhaseStats::from_durations, checked under StatsSpec.      *)

\* C16: for every non-empty sequence of durations the statistics returned
\* satisfy min <= median <= max and min <= mean <= max.
C16_StatsWithinMinMax ==
    (phase_stats # None /\ l_durations # <<>>) =>
        LET st == Unwrap(phase_stats)
        IN  /\ F64Leq(st.min_secs, st.median_secs)
            /\ F64Leq(st.median_secs, st.max_secs)
            /\ F64Leq(st.min_secs, st.mean_secs)
            /\ F64Leq(st.mean_secs, st.max_secs)

\* the sample at 0-based position j of the samples in ascending order, as f64
\* seconds: fewer than j + 1 samples are below it, at least j + 1 are not
\* above it
Ranked(j) ==
    LET n == Len(l_durations)
        k == CHOOSE c \in 1..n :
                 /\ Cardinality({q \in 1..n : DurationLess(l_durations[q], l_durations[c])}) <= j
                 /\ Cardinality({q \in 1..n : ~DurationLess(l_durations[c], l_durations[q])}) > j
    IN  as_secs_f64(l_durations[k])

\* round(p / 100 * (n - 1)) in exact arithmetic, halves upwards
NearestRank(p, n) ==
    CHOOSE r \in 0..n : 200 * r <= 2 * p * (n - 1) + 100 /\ 2 * p * (n - 1) + 100 < 200 * (r + 1)

Returned == Unwrap(phase_stats)

\* C23: for a non-empty sequence of n samples, p95 and p99 are each the
\* sample at 0-based position round(p / 100 * (n - 1)), clamped to n - 1, of
\* the ascending order (nearest rank, no interpolation), min is the sample at
\* position 0 and max the one at position n - 1.
C23_NearestRankPercentiles ==
    (l_pc = "done" /\ l_durations # <<>>) =>
        LET n == Len(l_durations)
        IN  /\ Returned.p95_secs = Ranked(Min2(NearestRank(95, n), n - 1))
            /\ Returned.p99_secs = Ranked(Min2(NearestRank(99, n), n - 1))
            /\ Returned.min_secs = Ranked(0)
            /\ Returned.max_secs = Ranked(n - 1)

\* 52 distinct samples out of order: p95 is the 49th, p99 the 51st and max
\* the 52nd of the ascending order
C23_Witness ==
    /\ l_pc = "done"
    /\ Len(l_durations) = 52
    /\ l_durations[2] = Tenths(3)
    /\ Returned.p95_secs = as_secs_f64(Tenths(49))
    /\ Returned.p99_secs = as_secs_f64(Tenths(51))
    /\ Returned.max_secs = as_secs_f64(Tenths(52))
    /\ Returned.min_secs = as_secs_f64(Tenths(1))

\* C24: for a non-empty sequence of n samples in any order, the median is the
\* middle element of the ascending order when n is odd and the sum of the two
\* central elements divided by 2 when n is even; the mean is the sum of the
\* samples, added in ascending order, divided by n.
C24_MedianAndMean ==
    (l_pc = "done" /\ l_durations # <<>>) =>
        LET n == Len(l_durations)
        IN  /\ n % 2 = 1 => Returned.median_secs = Ranked((n - 1) \div 2)
            /\ n % 2 = 0 =>
                   Returned.median_secs =
                       F64DivNat(F64Add(Ranked(n \div 2 - 1), Ranked(n \div 2)), 2)
            /\ Returned.mean_secs =
                   F64DivNat(F64Sum([j \in 1..n |-> Ranked(j - 1)], F64Zero), n)

\* 30 s, 10 s, 20 s: median 20, mean 20, min 10, max 30
C24_Witness ==
    /\ l_pc = "done"
    /\ l_durations = <<Duration(30, 0), Duration(10, 0), Duration(20, 0)>>
    /\ Returned.median_secs = F64OfNat(20)
    /\ Returned.mean_secs = F64OfNat(20)
    /\ Returned.min_secs = F64OfNat(10)
    /\ Returned.max_secs = F64OfNat(30)

\* an even number of samples out of order: the median is between the two
\* central ones
C24_WitnessEven ==
    /\ l_pc = "done"
    /\ l_durations = <<Duration(1, 0), Duration(0, 100000000)>>
    /\ F64Less(Returned.min_secs, Returned.median_secs)
    /\ F64Less(Returned.median_secs, Returned.max_secs)
    /\ Returned.median_secs = Returned.mean_secs

\* C25: the statistics RunStats gives (the ones the profiler prints) and the
\* PhaseStats of the report are equal for every sequence of durations: the
\* RunStats values, as f64 seconds, are the PhaseStats values: median, mean,
\* p95, p99, min and max (the standard deviation is left out of the
\* comparison).
C25_RunStatsEqualPhaseStats ==
    (phase_stats # None /\ run_stats # None) =>
        LET printed == Unwrap(run_stats)
        IN  /\ as_secs_f64(printed.median) = Returned.median_secs
            /\ as_secs_f64(printed.mean) = Returned.mean_secs
            /\ as_secs_f64(printed.p95) = Returned.p95_secs
            /\ as_secs_f64(printed.p99) = Returned.p99_secs
            /\ as_secs_f64(printed.min) = Returned.min_secs
            /\ as_secs_f64(printed.max) = Returned.max_secs

\* C30: for every non-empty sequence of durations from_durations returns
\* median <= p95 <= p99 <= max, and the index of the 95th percentile is not
\* below the median position nor above the index of the 99th percentile.
C30_MedianBelowPercentiles ==
    (l_pc = "done" /\ l_durations # <<>>) =>
        LET n == Len(l_durations)
        IN  /\ F64Leq(Returned.median_secs, Returned.p95_secs)
            /\ F64Leq(Returned.p95_secs, Returned.p99_secs)
            /\ F64Leq(Returned.p99_secs, Returned.max_secs)
            /\ n \div 2 <= percentile_idx(95, n)
            /\ percentile_idx(95, n) <= percentile_idx(99, n)
            /\ percentile_idx(99, n) <= n - 1

\* 52 distinct samples: median < p95 < p99 < max
C30_Witness ==
    /\ l_pc = "done"
    /\ Len(l_durations) = 52
    /\ F64Less(Returned.median_secs, Returned.p95_secs)
    /\ F64Less(Returned.p95_secs, Returned.p99_secs)
    /\ F64Less(Returned.p99_secs, Returned.max_secs)

----------------------------------------------------------------------------
(* Properties of the per-pass working areas of run_profile.                *)

\* the per-pass directories this session provisioned under --db-dir
ProvisionedDirs ==
    {<<"run", 0, k>> : k \in 0..(i - 1)}
        \cup (IF db_dir # None THEN {Unwrap(db_dir)} ELSE {})

\* the directory of the final measured pass
FinalMeasuredDir == {<<"run", 0, k>> : k \in {n \in 0..MaxPasses : is_last_measured(n)}}

\* C19: with an explicit --db-dir, when the session has ended (after all
\* passes, by a failed pass or by a non-deterministic-root abort) every
\* per-pass directory it provisioned is gone, except the final measured pass's
\* directory when keep-db was requested; with keep-db unset none survives.
C19_WorkingDirsRemoved ==
    (pc = "done" /\ opts.db_dir # None) =>
        \A d \in ProvisionedDirs \cap DOMAIN fs :
            opts.keep_db /\ d \in FinalMeasuredDir

\* the content of the working area of the pass in flight
WorkingArea ==
    IF Unwrap(db_dir) \in DOMAIN fs THEN fs[Unwrap(db_dir)] ELSE {}

\* C20: every pass of every session starts its timed operation in a working
\* area holding nothing written by an earlier pass of the same session or by
\* a pass of an earlier session with the same db directory, for every backend.
C20_FreshWorkingArea ==
    pc = "run" => WorkingArea = {}

\* the working directory of pass k of this session
DirOfPass(k) == IF opts.db_dir # None THEN <<"run", 0, k>> ELSE <<"tmp", session, k>>

\* the directory the clean-up has retained: that of the final measured pass,
\* once that pass is over, under --keep-db
RetainedDirs ==
    {DirOfPass(k) : k \in {n \in 0..(i - 1) : is_last_measured(n) /\ opts.keep_db}}

\* the areas on disk that the clean-up has not retained
UndisposedDirs == (DOMAIN fs) \ RetainedDirs

\* while a pass's timed operation runs its area exists and is the only
\* undisposed one; between passes and after the last one none is left
AreasInStep ==
    opts.backend = "rocksdb" =>
        /\ pc = "run" => Unwrap(db_dir) = DirOfPass(i) /\ UndisposedDirs = {DirOfPass(i)}
        /\ pc \in {"loop", "emit", "ret"} => UndisposedDirs = {}
        /\ Cardinality(UndisposedDirs) <= 1
        /\ RetainedDirs \cap DOMAIN fs \subseteq {DirOfPass(total_runs - 1)}

\* an area appears only in the step that starts its pass; it disappears, or
\* becomes retained, only in the step that runs that pass's timed operation
\* and root check
AreasChangeInOrder ==
    /\ \A d \in (DOMAIN fs') \ (DOMAIN fs) : pc = "loop" /\ pc' = "run" /\ d = DirOfPass(i)
    /\ \A d \in (DOMAIN fs) \ (DOMAIN fs') : pc = "run" /\ d = DirOfPass(i)
    /\ \A d \in RetainedDirs' \ RetainedDirs : pc = "run" /\ d = DirOfPass(i) /\ i' = i + 1

C26_WitnessRetained ==
    /\ pc = "done"
    /\ result = "Ok"
    /\ opts.keep_db
    /\ opts.repeat = 2
    /\ DOMAIN fs = {DirOfPass(1)}
    /\ fs[DirOfPass(1)] # {}

----------------------------------------------------------------------------
(* Properties of write_to_file / load_from_file, checked under RoundTripSpec. *)

============================================================================
